---------------------------- MODULE Spec2Model ----------------------------
(***************************************************************************)
(* Model of the HydraDX simulation pools: the Omnipool                     *)
(* (hydradx/model/amm/omnipool_amm.py) and the StableSwap pool             *)
(* (hydradx/model/amm/stableswap_amm.py), each driven by one agent.        *)
(*                                                                         *)
(* Numbers.  The Omnipool keeps every quantity as an mpmath mpf with 50    *)
(* significant digits.  The model computes with exact rationals <<n, d>>   *)
(* (d > 0, lowest terms), so an equality of the model is an equality that  *)
(* the code reaches up to its 50-digit rounding.  A rational whose         *)
(* numerator or denominator would pass MaxMagnitude is NaN, and a step     *)
(* that computes a NaN is outside the model (its guard fails).  float      *)
(* ('inf') is Inf.  Every Omnipool formula is homogeneous in the unit of   *)
(* each asset, so amounts are counted in units of 10 ^ 11 tokens and the   *)
(* 10 ^ 12 ceiling is 10 units.                                            *)
(***************************************************************************)
EXTENDS Integers, Sequences, FiniteSets, TLC

MaxMagnitude == 1000000000

Abs(x) == IF x < 0 THEN -x ELSE x

RECURSIVE GCD(_, _)
GCD(a, b) == IF b = 0 THEN a ELSE GCD(b, a % b)

NaN == <<0, 0>>
Inf == <<1, 0>>
Zero == <<0, 1>>
One == <<1, 1>>

IsNum(r) == r[2] # 0
IsInf(r) == r = Inf

Fits(a, b) == a = 0 \/ b = 0 \/ Abs(a) <= MaxMagnitude \div Abs(b)

Norm(n, d) ==
    IF Abs(n) > MaxMagnitude \/ d > MaxMagnitude THEN NaN
    ELSE LET g == GCD(Abs(n), d) IN <<n \div g, d \div g>>

RNeg(a) == IF IsNum(a) THEN <<-a[1], a[2]>> ELSE NaN

RAdd(a, b) ==
    IF ~IsNum(a) \/ ~IsNum(b) THEN NaN
    ELSE LET g == GCD(a[2], b[2])
             da == a[2] \div g
             db == b[2] \div g
         IN IF Fits(a[1], db) /\ Fits(b[1], da) /\ Fits(da, b[2])
            THEN Norm(a[1] * db + b[1] * da, da * b[2])
            ELSE NaN

RSub(a, b) == RAdd(a, RNeg(b))

RMul(a, b) ==
    IF ~IsNum(a) \/ ~IsNum(b) THEN NaN
    ELSE IF a[1] = 0 \/ b[1] = 0 THEN Zero
    ELSE LET g1 == GCD(Abs(a[1]), b[2])
             g2 == GCD(Abs(b[1]), a[2])
             n1 == a[1] \div g1
             n2 == b[1] \div g2
             d1 == a[2] \div g2
             d2 == b[2] \div g1
         IN IF Fits(n1, n2) /\ Fits(d1, d2) THEN <<n1 * n2, d1 * d2>> ELSE NaN

\* a / b; a zero divisor (ZeroDivisionError in the code) is NaN
RDiv(a, b) ==
    IF ~IsNum(a) \/ ~IsNum(b) \/ b[1] = 0 THEN NaN
    ELSE IF b[1] > 0 THEN RMul(a, <<b[2], b[1]>>)
    ELSE RMul(a, <<-b[2], -b[1]>>)

\* exact comparison by continued fractions: -1, 0 or 1; it never overflows
RECURSIVE RCmpNum(_, _)
RCmpNum(a, b) ==
    LET qa == a[1] \div a[2]
        qb == b[1] \div b[2]
        ra == a[1] % a[2]
        rb == b[1] % b[2]
    IN IF qa < qb THEN -1
       ELSE IF qa > qb THEN 1
       ELSE IF ra = 0 /\ rb = 0 THEN 0
       ELSE IF ra = 0 THEN -1
       ELSE IF rb = 0 THEN 1
       ELSE RCmpNum(<<b[2], rb>>, <<a[2], ra>>)

\* comparing with a NaN is left to the guards: 0
RCmp(a, b) == IF IsNum(a) /\ IsNum(b) THEN RCmpNum(a, b) ELSE 0

RLt(a, b) == RCmp(a, b) < 0
RLe(a, b) == RCmp(a, b) <= 0
RGt(a, b) == RCmp(a, b) > 0
RGe(a, b) == RCmp(a, b) >= 0
RMin(a, b) == IF ~IsNum(a) \/ ~IsNum(b) THEN NaN ELSE IF RLe(a, b) THEN a ELSE b
RMax(a, b) == IF ~IsNum(a) \/ ~IsNum(b) THEN NaN ELSE IF RGe(a, b) THEN a ELSE b

AllNum(s) == \A k \in 1..Len(s) : IsNum(s[k])
RECURSIVE RSum(_, _)
RSum(f, S) ==
    IF S = {} THEN Zero
    ELSE LET t == CHOOSE x \in S : TRUE IN RAdd(f[t], RSum(f, S \ {t}))

(***************************************************************************)
(* Bounds and inputs of the model.                                         *)
(***************************************************************************)
MaxOps == 3

Tokens == {"HDX", "USD"}
Stablecoin == "USD"
LRNA == "LRNA"
Quantities == {<<1, 1>>, <<3, 1>>}

\* OmnipoolState unique_id 'omnipool': the agent's key (unique_id, tkn)
ShareKey == [t \in Tokens |-> "omnipool/" \o t]

\* 10 ** 12 tokens, in units of 10 ** 11 tokens
LiquidityCeiling == 10

\* the tokens argument of the constructor
InitTokens ==
    [HDX |-> [liquidity |-> <<8, 1>>, LRNA |-> <<4, 1>>],
     USD |-> [liquidity |-> <<4, 1>>, LRNA |-> <<4, 1>>]]

\* the other constructor arguments: fees (basic_fee per asset), caps, limit
Configs ==
    { [asset_fee |-> [t \in Tokens |-> Zero], lrna_fee |-> [t \in Tokens |-> Zero],
       weight_cap |-> [t \in Tokens |-> One], tvl_cap |-> Inf,
       trade_limit_per_block |-> Inf],
      [asset_fee |-> [t \in Tokens |-> <<1, 4>>], lrna_fee |-> [t \in Tokens |-> <<1, 2>>],
       weight_cap |-> [HDX |-> One, USD |-> <<3, 5>>], tvl_cap |-> <<9, 1>>,
       trade_limit_per_block |-> <<1, 2>>],
      [asset_fee |-> [HDX |-> Zero, USD |-> <<1, 4>>],
       lrna_fee |-> [HDX |-> <<1, 2>>, USD |-> Zero],
       weight_cap |-> [t \in Tokens |-> One], tvl_cap |-> Inf,
       trade_limit_per_block |-> Inf] }

\* the holdings the agent is created with
InitHoldings ==
    { [HDX |-> <<4, 1>>, USD |-> <<4, 1>>],
      [HDX |-> <<4, 1>>, USD |-> <<4, 1>>, LRNA |-> <<4, 1>>] }

(***************************************************************************)
(* StableSwap arithmetic.  The pool computes in mpf with a fixed number of *)
(* digits; here an amount is an integer number of 1/SSScale tokens and     *)
(* every product and quotient is rounded down to that resolution.  The     *)
(* pool is constructed with a precision of ten such steps, so that, as in  *)
(* the program, the convergence tolerance is coarser than the arithmetic.  *)
(***************************************************************************)
SSScale == 100
Precision == 10
MaxIterations == 128

FMul(a, b) == (a * b) \div SSScale
FDiv(a, b) == (a * SSScale) \div b

\* calculate_d returning None; an operation raising an exception
None == 0 - 1
Raises == 0 - 2

SSTokens == {"USDA", "USDB"}
StableSwapId == "stableswap"
SSQuantities == {100, 500}
SSShareQuantities == {50, 200}

\* the constructor's arguments
SSInitTokens == [USDA |-> 1000, USDB |-> 1000]
SSConfigs == { [amplification |-> 10, trade_fee |-> 0],
               [amplification |-> 10, trade_fee |-> 1] }
SSInitHoldings == [USDA |-> 400, USDB |-> 400]

\* the max_iterations calculate_d is called with; 128 is its default
IterationLimits == {1, 2, MaxIterations}

RECURSIVE SeqSum(_)
SeqSum(xs) == IF xs = << >> THEN 0 ELSE Head(xs) + SeqSum(Tail(xs))

RECURSIVE SetToSeq(_, _)
SetToSeq(f, S) ==
    IF S = {} THEN << >>
    ELSE LET t == CHOOSE x \in S : TRUE IN <<f[t]>> \o SetToSeq(f, S \ {t})

\* sorted(balances.values()), the tokens in omit left out
SortedBalances(balances, omit) ==
    SortSeq(SetToSeq(balances, DOMAIN balances \ omit), LAMBDA a, b : a < b)

n_coins == Cardinality(SSTokens)

ann(amplification) == amplification * n_coins * n_coins

has_converged(v0, v1) ==
    \/ v1 <= v0 /\ Abs(v0 - v1) < Precision
    \/ v1 > v0 /\ Abs(v0 - v1) <= Precision

\* the inner loop of calculate_d: d_p *= d / (x * n_coins) for x in xp_sorted
RECURSIVE CalculateDP(_, _, _, _)
CalculateDP(d_p, d, xp_sorted, i) ==
    IF i > Len(xp_sorted) THEN d_p
    ELSE CalculateDP(FMul(d_p, FDiv(d, xp_sorted[i] * n_coins)), d, xp_sorted, i + 1)

\* the new d of one iteration of calculate_d
CalculateDNext(d, d_p, s, a) ==
    FDiv(FMul(a * s + d_p * n_coins, d), (a - 1) * d + (n_coins + 1) * d_p)

\* the loop of calculate_d: the d it returns, None once max_iterations have passed
RECURSIVE CalculateDLoop(_, _, _, _, _, _)
CalculateDTest(d_prev, d, s, xp_sorted, a, i, max_iterations) ==
    IF has_converged(d_prev, d) THEN d
    ELSE CalculateDLoop(d, s, xp_sorted, a, i + 1, max_iterations)

CalculateDLoop(d, s, xp_sorted, a, i, max_iterations) ==
    IF i >= max_iterations THEN None
    ELSE CalculateDTest(d, CalculateDNext(d, CalculateDP(d, d, xp_sorted, 1), s, a),
                        s, xp_sorted, a, i, max_iterations)

\* calculate_d(reserves, max_iterations); a zero reserve beside a non-zero one
\* divides by zero
CalculateDWithin(xp_sorted, amplification, max_iterations) ==
    IF SeqSum(xp_sorted) = 0 THEN 0
    ELSE IF \E i \in 1..Len(xp_sorted) : xp_sorted[i] = 0 THEN Raises
    ELSE CalculateDLoop(SeqSum(xp_sorted), SeqSum(xp_sorted), xp_sorted,
                        ann(amplification), 0, max_iterations)

\* calculate_d(reserves) with max_iterations at its default
CalculateD(xp_sorted, amplification) ==
    CalculateDWithin(xp_sorted, amplification, MaxIterations)

\* c of calculate_y: c *= d / reserve / n_coins for each reserve, then d / ann / n_coins
RECURSIVE CalculateYC(_, _, _, _)
CalculateYC(c, d, balances, i) ==
    IF i > Len(balances) THEN c
    ELSE CalculateYC(FMul(c, FDiv(d, balances[i]) \div n_coins), d, balances, i + 1)

\* the loop of calculate_y: the latest y once max_iterations have passed
RECURSIVE CalculateYLoop(_, _, _, _, _)
CalculateYTest(y_prev, y, c, b, d, i) ==
    IF has_converged(y_prev, y) THEN y ELSE CalculateYLoop(y, c, b, d, i + 1)

CalculateYLoop(y, c, b, d, i) ==
    IF i >= MaxIterations THEN y
    ELSE IF 2 * y + b - d = 0 THEN Raises
    ELSE CalculateYTest(y, FDiv(FMul(y, y) + c, 2 * y + b - d), c, b, d, i)

\* calculate_y(reserves, d)
CalculateY(balances, d, amplification) ==
    IF \E i \in 1..Len(balances) : balances[i] = 0 THEN Raises
    ELSE CalculateYLoop(d,
                        FMul(CalculateYC(d, d, balances, 1),
                             (d \div ann(amplification)) \div n_coins),
                        SeqSum(balances) + d \div ann(amplification),
                        d, 0)

VARIABLES
    liquidity,          \* OmnipoolState.liquidity
    lrna,               \* OmnipoolState.lrna
    shares,             \* OmnipoolState.shares
    protocol_shares,    \* OmnipoolState.protocol_shares
    lrna_imbalance,     \* OmnipoolState.lrna_imbalance
    fail,               \* OmnipoolState.fail
    current_block,      \* OmnipoolState.current_block: liquidity, price, volume_in, volume_out
    config,             \* asset_fee, lrna_fee, weight_cap, tvl_cap, trade_limit_per_block
    holdings,           \* Agent.holdings; its DOMAIN is the set of keys present
    share_prices,       \* Agent.share_prices, keyed by token
    ops,                \* operations performed so far
    last,               \* the last operation: its name, inputs and outcome
    ss_liquidity,       \* StableSwapPoolState.liquidity
    ss_shares,          \* StableSwapPoolState.shares
    ss_d,               \* StableSwapPoolState.d
    ss_fail,            \* StableSwapPoolState.fail
    ss_config,          \* amplification, trade_fee
    ss_holdings,        \* holdings of the agent trading with the StableSwap pool
    ss_agent_shares     \* Agent.shares, keyed by the pool's unique_id

VARIABLES
    fee_mechanism,      \* the schedule: kind, side, minimum, amplification, decay, fee_max
    raise_oracle,       \* exchange.oracles[raise_oracle_name]: volume_in, volume_out, liquidity of tkn
    fee_liquidity,      \* exchange.liquidity[tkn] of the pool the schedule is bound to
    last_fee,           \* exchange.last_fee[tkn] (last_lrna_fee[tkn] on the hub side)
    last_mult,          \* exchange.last_mult[tkn] (last_lrna_mult[tkn] on the hub side)
    fee_evals           \* evaluations of the schedule so far

VARIABLES
    run_once,           \* TradeStrategy.run_once
    done,               \* TradeStrategy.done
    world_state,        \* the GlobalState the strategy acts on: the agent's holdings, its stake
    executes,           \* calls of TradeStrategy.execute so far
    invocations,        \* calls of TradeStrategy.function so far
    execute_input,      \* the state handed to the last execute
    execute_result      \* the state the last execute returned

VARIABLES
    mm_config,          \* money_market: liquidation_threshold, liquidation_penalty
    oracles,            \* money_market.oracles[(DOT, USDT)]
    cdp,                \* the CDP of the money market: debt_amt, collateral_amt
    borrowed,           \* money_market.borrowed[USDT]
    liquidator,         \* holdings of the liquidating agent; its DOMAIN is the keys present
    mm_last             \* the last money market call, the CDP and the holdings it found

VARIABLES
    fd_price_after_trade,   \* find_agent_delta_y: the callable it is handed
    fd_target_price,        \* target_price
    fd_b,                   \* b
    fd_previous_change,     \* previous_change
    fd_p,                   \* p
    fd_previous_price,      \* previous_price
    fd_pc                   \* where the call is: in its loop, returned, raised

VARIABLES
    d_max_iterations,   \* max_iterations of the last calculate_d called on the pool from outside
    d_returned          \* what that call returned

VARIABLES
    ctor_args,          \* OmnipoolState(...): the asset_fee and lrna_fee arguments
    ctor_fees,          \* the asset_fee and lrna_fee attributes _get_fee has built
    ctor_pc             \* the constructor has not run, has built the pool, has raised

VARIABLES
    sp_liquidity,       \* the sub-pool's reserve of each of its assets
    sp_shares,          \* the sub-pool's shares in issue
    sp_fail,            \* the sub-pool's fail
    sp_call,            \* execute_stable_swap: the arguments of the call under way
    sp_entry,           \* the pools and the agent as the call found them
    sp_pc               \* "idle", or "swapped" after the call's Omnipool leg

VARIABLES
    mg_asset_list,      \* migration: the Omnipool's asset_list
    mg_liquidity,       \* its liquidity, lrna, shares and protocol_shares
    mg_lrna,
    mg_shares,
    mg_protocol_shares,
    mg_sub_pools,       \* sub_pools: id -> the sub-pool's liquidity, asset_list, shares
    mg_migrated,        \* the assets a call that returned has migrated
    mg_calls,           \* the calls made
    mg_raised           \* the exception the last call ended in, or ""

VARIABLES
    external_market,    \* GlobalState.external_market of the state fluctuate_prices returned
    fl_old_market,      \* external_market of the state it was given
    fl_call,            \* its percent and bias, and the draw of random.random() for each asset
    fl_calls            \* the calls made

VARIABLES
    ao_spots,           \* get_arb_opps: per config entry, the spot prices of its two exchanges
    ao_opps,            \* the list it returned
    ao_pc               \* "new", "returned", or the exception it raised

VARIABLES
    arb_heap,           \* general get_arb_swaps: the exchange objects, by identity
    arb_exchanges,      \* the caller's exchanges: name -> object
    arb_test_exchanges, \* test_exchanges: name -> object
    arb_max_liquidity,  \* max_liquidity: name -> token -> budget
    arb_opps,           \* arb_opps
    arb_all_swaps,      \* all_swaps, as the amounts of its swaps
    arb_calc,           \* the last call of calculate_arb_amount and what it returned
    arb_args,           \* the buffer of the config entry and max_iters
    arb_before,         \* the caller's exchanges as they were at the call
    arb_pc              \* "new", "loop" or "returned"

VARIABLES
    bw_pool,            \* single-pair get_arb_swaps: the Omnipool object the caller passes as op_state
    bw_bids,            \* the bids of the order book, as the caller lists them
    bw_args,            \* cex_fee and iters
    bw_swaps,           \* the list of legs it returned for the pair
    bw_pc               \* "new" or "returned"

omnipool_vars == <<liquidity, lrna, shares, protocol_shares, lrna_imbalance, fail,
                   current_block, config, holdings, share_prices>>

stableswap_vars == <<ss_liquidity, ss_shares, ss_d, ss_fail, ss_config, ss_holdings,
                     ss_agent_shares>>

fee_vars == <<fee_mechanism, raise_oracle, fee_liquidity, last_fee, last_mult, fee_evals>>

strategy_vars == <<run_once, done, world_state, executes, invocations, execute_input,
                   execute_result>>

money_market_vars == <<mm_config, oracles, cdp, borrowed, liquidator, mm_last>>

find_vars == <<fd_price_after_trade, fd_target_price, fd_b, fd_previous_change, fd_p,
               fd_previous_price, fd_pc>>

calculate_d_vars == <<d_max_iterations, d_returned>>

construct_vars == <<ctor_args, ctor_fees, ctor_pc>>
migration_vars == <<mg_asset_list, mg_liquidity, mg_lrna, mg_shares, mg_protocol_shares,
                    mg_sub_pools, mg_migrated, mg_calls, mg_raised>>
fluctuate_vars == <<external_market, fl_old_market, fl_call, fl_calls>>
arb_opps_vars == <<ao_spots, ao_opps, ao_pc>>
arb_swaps_vars == <<arb_heap, arb_exchanges, arb_test_exchanges, arb_max_liquidity, arb_opps,
                    arb_all_swaps, arb_calc, arb_args, arb_before, arb_pc>>
bid_walk_vars == <<bw_pool, bw_bids, bw_args, bw_swaps, bw_pc>>
sub_pool_vars == <<sp_liquidity, sp_shares, sp_fail, sp_call, sp_entry, sp_pc>>

later_vars == <<construct_vars, sub_pool_vars, migration_vars, fluctuate_vars, arb_opps_vars, arb_swaps_vars, bid_walk_vars>>

beside_construct == <<sub_pool_vars, migration_vars, fluctuate_vars, arb_opps_vars, arb_swaps_vars, bid_walk_vars>>
beside_sub_pool == <<construct_vars, migration_vars, fluctuate_vars, arb_opps_vars, arb_swaps_vars, bid_walk_vars>>
beside_migration == <<construct_vars, sub_pool_vars, fluctuate_vars, arb_opps_vars, arb_swaps_vars, bid_walk_vars>>
beside_fluctuate == <<construct_vars, sub_pool_vars, migration_vars, arb_opps_vars, arb_swaps_vars, bid_walk_vars>>
beside_arb_opps == <<construct_vars, sub_pool_vars, migration_vars, fluctuate_vars, arb_swaps_vars, bid_walk_vars>>
beside_arb_swaps == <<construct_vars, sub_pool_vars, migration_vars, fluctuate_vars, arb_opps_vars, bid_walk_vars>>
beside_bid_walk == <<construct_vars, sub_pool_vars, migration_vars, fluctuate_vars, arb_opps_vars, arb_swaps_vars>>

vars == <<omnipool_vars, stableswap_vars, fee_vars, strategy_vars, money_market_vars, find_vars,
          calculate_d_vars, later_vars, ops, last>>

\* what an Omnipool operation, a StableSwap operation, a fee evaluation leaves alone
\* a strategy, a money market call, a call of find_agent_delta_y
idle_beside_pools == <<strategy_vars, money_market_vars, find_vars, calculate_d_vars, later_vars>>
outside_omnipool == <<stableswap_vars, fee_vars, idle_beside_pools>>
outside_stableswap == <<omnipool_vars, fee_vars, idle_beside_pools>>
outside_fees == <<omnipool_vars, stableswap_vars, idle_beside_pools, ops, last>>
pools_and_fees == <<omnipool_vars, stableswap_vars, fee_vars, ops, last>>
outside_strategy == <<pools_and_fees, money_market_vars, find_vars, calculate_d_vars, later_vars>>
outside_money_market == <<pools_and_fees, strategy_vars, find_vars, calculate_d_vars, later_vars>>
outside_find == <<pools_and_fees, strategy_vars, money_market_vars, calculate_d_vars, later_vars>>
outside_calculate_d == <<omnipool_vars, stableswap_vars, fee_vars, strategy_vars, money_market_vars,
                         find_vars, later_vars, ops, last>>

earlier_vars == <<omnipool_vars, stableswap_vars, fee_vars, strategy_vars, money_market_vars,
                  find_vars, calculate_d_vars, ops, last>>

outside_construct == <<earlier_vars, beside_construct>>
outside_sub_pool == <<earlier_vars, beside_sub_pool>>
outside_migration == <<earlier_vars, beside_migration>>
outside_fluctuate == <<earlier_vars, beside_fluctuate>>
outside_arb_opps == <<earlier_vars, beside_arb_opps>>
outside_arb_swaps == <<earlier_vars, beside_arb_swaps>>
outside_bid_walk == <<earlier_vars, beside_bid_walk>>

pool_vars == <<liquidity, lrna, shares, protocol_shares, lrna_imbalance, current_block>>
agent_vars == <<holdings, share_prices>>

lrna_total == RSum(lrna, Tokens)

\* Block(pool)
Block ==
    [liquidity |-> liquidity,
     price |-> [t \in Tokens |-> RDiv(lrna[t], liquidity[t])],
     volume_in |-> [t \in Tokens |-> Zero],
     volume_out |-> [t \in Tokens |-> Zero]]

NoOp == [op |-> "init", result |-> "none", tkn_sell |-> "", tkn_buy |-> "",
         sell_quantity |-> Zero, buy_quantity |-> Zero]

HoldingOf(h, k) == IF k \in DOMAIN h THEN h[k] ELSE Zero

\* holdings[k], for a key that is present
Has(k) == k \in DOMAIN holdings

\* OmnipoolState(tokens, ...) and the agent trading with it
OmnipoolInit ==
    /\ liquidity = [t \in Tokens |-> InitTokens[t].liquidity]
    /\ lrna = [t \in Tokens |-> InitTokens[t].LRNA]
    /\ shares = [t \in Tokens |-> InitTokens[t].liquidity]
    /\ protocol_shares = [t \in Tokens |-> InitTokens[t].liquidity]
    /\ lrna_imbalance = Zero
    /\ fail = ""
    /\ current_block =
         [liquidity |-> [t \in Tokens |-> InitTokens[t].liquidity],
          price |-> [t \in Tokens |-> RDiv(InitTokens[t].LRNA, InitTokens[t].liquidity)],
          volume_in |-> [t \in Tokens |-> Zero],
          volume_out |-> [t \in Tokens |-> Zero]]
    /\ config \in Configs
    /\ holdings \in InitHoldings
    /\ share_prices = << >>

\* StableSwapPoolState(tokens, amplification, precision, trade_fee) and its agent
StableSwapInit ==
    /\ ss_config \in SSConfigs
    /\ ss_liquidity = SSInitTokens
    /\ ss_shares = CalculateD(SortedBalances(SSInitTokens, {}), ss_config.amplification)
    /\ ss_d = CalculateD(SortedBalances(SSInitTokens, {}), ss_config.amplification)
    /\ d_max_iterations = MaxIterations
    /\ d_returned = CalculateD(SortedBalances(SSInitTokens, {}), ss_config.amplification)
    /\ ss_fail = ""
    /\ ss_holdings = SSInitHoldings
    /\ ss_agent_shares = << >>

(***************************************************************************)
(* The dynamic fee library: dynamic_*, dynamicadd_* and dynamicmult_* on   *)
(* the asset side and on the hub side, for one asset tkn.  A schedule      *)
(* reads the named oracle and the pool's liquidity and keeps its memory    *)
(* (last_fee, last_mult) on the pool.  What the oracle and the pool hold   *)
(* between two evaluations is drawn from small sets.                       *)
(***************************************************************************)
MaxFeeEvals == 3

FeeKinds == {"dynamic", "dynamicadd", "dynamicmult"}
FeeSides == {"asset", "lrna"}

\* the schedules: minimum <= fee_max
FeeMechanisms ==
    {f \in [kind : FeeKinds, side : FeeSides,
            minimum : {Zero, <<1, 100>>, <<1, 4>>},
            amplification : {One, <<10, 1>>},
            decay : {<<1, 10>>},
            fee_max : {<<1, 4>>, <<1, 2>>}] : RLe(f.minimum, f.fee_max)}

OracleVolumes == {Zero, One, <<3, 1>>}
OracleLiquidities == {Zero, <<2, 1>>, <<4, 1>>}
OracleValues == [volume_in : OracleVolumes, volume_out : OracleVolumes,
                 liquidity : OracleLiquidities]
PoolLiquidities == {<<2, 1>>, <<4, 1>>}

\* the flow a schedule raises its fee on, and the flow against it: the asset
\* side raises on volume_out, the hub side on volume_in
RaiseFlow(side, o) == IF side = "asset" THEN o.volume_out ELSE o.volume_in
LowerFlow(side, o) == IF side = "asset" THEN o.volume_in ELSE o.volume_out

\* frac: 1 with no flow, 200 with no flow against, else the ratio
Frac(side, o) ==
    IF o.volume_out = Zero /\ o.volume_in = Zero THEN One
    ELSE IF LowerFlow(side, o) = Zero THEN <<200, 1>>
    ELSE RDiv(RaiseFlow(side, o), LowerFlow(side, o))

\* x: the net flow over the given liquidity, 0 when the oracle's liquidity is 0
NetFlow(side, o, over) ==
    IF o.liquidity # Zero
    THEN RDiv(RSub(RaiseFlow(side, o), LowerFlow(side, o)), over)
    ELSE Zero

\* dynamic_asset_fee, dynamic_lrna_fee: min(minimum * temp, 0.5)
DynamicFee(f, o) ==
    RMin(RMul(f.minimum,
              RAdd(One, RMul(RMul(RMax(RSub(Frac(f.side, o), One), Zero), f.amplification),
                             RMax(NetFlow(f.side, o, o.liquidity), Zero)))),
         <<1, 2>>)

\* min(max(v, minimum), fee_max) with the upper bound left out
ClampFromBelowOnly(v, minimum, fee_max) == RMax(v, minimum)

\* min(max(v, minimum), fee_max)
Clamp(v, minimum, fee_max) == RMin(RMax(v, minimum), fee_max)

\* dynamicadd_asset_fee, dynamicadd_lrna_fee: x is over the pool's liquidity
DynamicAddFee(f, o, pool_liquidity, previous_fee) ==
    Clamp(RAdd(previous_fee,
               RSub(RMul(f.amplification, RMax(NetFlow(f.side, o, pool_liquidity), Zero)),
                    f.decay)),
          f.minimum, f.fee_max)

\* dynamicmult_*: the multiplier
DynamicMult(f, o, mult) ==
    IF RGt(NetFlow(f.side, o, o.liquidity), RNeg(One))
    THEN RMax(One,
              RMul(mult,
                   RAdd(RSub(One, f.decay),
                        RDiv(RMul(f.amplification, NetFlow(f.side, o, o.liquidity)),
                             RAdd(NetFlow(f.side, o, o.liquidity), One)))))
    ELSE One

\* dynamicmult_*: min(minimum * mult, fee_max)
DynamicMultFee(f, mult) == RMin(RMul(f.minimum, mult), f.fee_max)

\* the memory a schedule finds on a pool it has not seen: last_fee is minimum
\* for dynamicadd_asset_fee and 0 for the others, last_mult is 1
LazyLastFee(f) == IF f.kind = "dynamicadd" /\ f.side = "asset" THEN f.minimum ELSE Zero
LazyLastMult == One

\* fee_function: the multiplier it leaves, and the fee it returns and leaves
FeeNewMult(f, o, mult) == IF f.kind = "dynamicmult" THEN DynamicMult(f, o, mult) ELSE mult

FeeFunction(f, o, pool_liquidity, previous_fee, new_mult) ==
    IF f.kind = "dynamic" THEN DynamicFee(f, o)
    ELSE IF f.kind = "dynamicadd" THEN DynamicAddFee(f, o, pool_liquidity, previous_fee)
    ELSE DynamicMultFee(f, new_mult)

\* the oracle of a pool just constructed: its first Block
FirstBlock(pool_liquidity) ==
    [volume_in |-> Zero, volume_out |-> Zero, liquidity |-> pool_liquidity]

\* the pool after construction: __init__ has evaluated the schedule once
FeeInit ==
    /\ fee_mechanism \in FeeMechanisms
    /\ fee_liquidity \in PoolLiquidities
    /\ raise_oracle = FirstBlock(fee_liquidity)
    /\ last_mult = FeeNewMult(fee_mechanism, raise_oracle, LazyLastMult)
    /\ last_fee = FeeFunction(fee_mechanism, raise_oracle, fee_liquidity,
                              LazyLastFee(fee_mechanism), last_mult)
    /\ fee_evals = 0

\* one schedule, never evaluated again
FeeIdle ==
    /\ FeeInit
    /\ fee_mechanism = [kind |-> "dynamic", side |-> "asset", minimum |-> Zero,
                        amplification |-> One, decay |-> <<1, 10>>, fee_max |-> <<1, 2>>]
    /\ fee_liquidity = <<4, 1>>

(***************************************************************************)
(* Trade strategies.  The world a strategy acts on is the holding of its   *)
(* agent and what the agent has staked in the pool.                        *)
(***************************************************************************)
MaxExecutes == 4
MaxHoldings == 2

NoWorld == [holdings |-> 0, invested |-> 0]

\* the strategy function of invest_all: every holding is added to the pool
InvestAll(state) == [holdings |-> 0, invested |-> state.invested + state.holdings]

\* TradeStrategy.__init__
StrategyInit ==
    /\ run_once \in BOOLEAN
    /\ done = FALSE
    /\ world_state \in [holdings : 1..MaxHoldings, invested : {0}]
    /\ executes = 0
    /\ invocations = 0
    /\ execute_input = NoWorld
    /\ execute_result = NoWorld

\* a strategy that is never executed
StrategyIdle ==
    /\ StrategyInit
    /\ run_once = FALSE
    /\ world_state.holdings = 1

(***************************************************************************)
(* The money market: one CDP of USDT debt against DOT collateral, one      *)
(* liquidating agent.                                                      *)
(***************************************************************************)
DebtAsset == "USDT"
CollateralAsset == "DOT"

MMConfigs ==
    [liquidation_threshold : {<<7, 10>>, One}, liquidation_penalty : {Zero, <<1, 100>>}]
MMPrices == {<<2, 1>>, <<5, 1>>, <<11, 1>>, <<20, 1>>}
MMInitCDPs == [debt_amt : {<<10, 1>>}, collateral_amt : {One, <<2, 1>>}]
MMInitHoldings == {[k \in {DebtAsset} |-> <<5, 1>>], [k \in {DebtAsset} |-> <<20, 1>>]}
LiquidateAmounts == {<<5, 1>>, <<10, 1>>, <<20, 1>>}

\* money_market.get_oracle_price(collateral, debt)
GetOraclePrice == oracles

\* is_liquidatable that takes every CDP for liquidatable
AlwaysLiquidatable(c, price, threshold) == TRUE

\* money_market.is_liquidatable
IsLiquidatable(c, price, threshold) ==
    RLt(RMul(c.collateral_amt, price), RDiv(c.debt_amt, threshold))

\* collateral_sold of liquidate
CollateralSold(liquidate_amt, price, penalty) ==
    RMul(RDiv(liquidate_amt, price), RAdd(One, penalty))

\* CDP.validate
CDPValidate(c) == RGe(c.debt_amt, Zero) /\ RGe(c.collateral_amt, Zero)

\* money_market.validate: borrowed is the debt of the live CDPs
MMValidate == CDPValidate(cdp) /\ borrowed = cdp.debt_amt

MMNoOp == [op |-> "init", result |-> "none", cdp |-> [debt_amt |-> Zero, collateral_amt |-> Zero], holdings |-> <<>>, liquidate_amt |-> Zero]

\* money_market(liquidity, oracles, cdps, liquidation_threshold, liquidation_penalty)
MoneyMarketInit ==
    /\ mm_config \in MMConfigs
    /\ oracles \in MMPrices
    /\ cdp \in MMInitCDPs
    /\ borrowed = cdp.debt_amt
    /\ liquidator \in MMInitHoldings
    /\ mm_last = MMNoOp

\* a money market that is never called
MoneyMarketIdle ==
    /\ MoneyMarketInit
    /\ mm_config = [liquidation_threshold |-> <<7, 10>>, liquidation_penalty |-> <<1, 100>>]
    /\ oracles = <<11, 1>>
    /\ cdp.collateral_amt = One
    /\ liquidator[DebtAsset] = <<5, 1>>

(***************************************************************************)
(* find_agent_delta_y.  Prices and amounts are integers of 1/SSScale, as   *)
(* in the StableSwap arithmetic; the search runs at a precision of one     *)
(* such step.  The callable it is handed is a quote that does not depend   *)
(* on the amount, or the pair price of an Omnipool after the amount is     *)
(* sold, taking either argument alone as the call p = price_after_trade(b) *)
(* requires.                                                               *)
(***************************************************************************)
FindPrecision == 1

PriceCurves ==
    { [kind |-> "flat", quote |-> 30],
      [kind |-> "omnipool", Qi |-> 400, Ri |-> 800, Qj |-> 400, Rj |-> 400] }
TargetPrices == {30, 60, 100}
StartingBids == {100, 200, 300}

\* delta_q of the Omnipool price_after_trade: Qi * (-x / (Ri + x))
OmnipoolCurveDeltaQ(c, x) == FMul(c.Qi, FDiv(-x, c.Ri + x))

\* ((Qi + delta_q) / (Ri + x)) / ((Qj - delta_q) / (Rj + Rj * (delta_q / (Qj - delta_q))))
OmnipoolCurvePrice(c, x, delta_q) ==
    FDiv(FDiv(c.Qi + delta_q, c.Ri + x),
         FDiv(c.Qj - delta_q, c.Rj + FMul(c.Rj, FDiv(delta_q, c.Qj - delta_q))))

\* price_after_trade(buy_amount, sell_amount)
PriceAfterTrade(c, buy_amount, sell_amount) ==
    IF c.kind = "flat" THEN c.quote
    ELSE OmnipoolCurvePrice(c, IF sell_amount # 0 THEN sell_amount ELSE buy_amount,
                            OmnipoolCurveDeltaQ(c, IF sell_amount # 0 THEN sell_amount
                                                   ELSE buy_amount))

\* while abs(1 - diff) > precision, with diff = p / target_price
FindNotConverged(price, target) == Abs(SSScale - FDiv(price, target)) > FindPrecision

\* progress = (previous_price - p) / (previous_price - target_price) or 2
FindProgress(previous, price, target) ==
    IF FDiv(previous - price, previous - target) # 0
    THEN FDiv(previous - price, previous - target) ELSE 2 * SSScale

\* the new b: b -= previous_change * (1 - 1 / progress)
FindNewB(bid, change, progress) == bid - FMul(change, SSScale - FDiv(SSScale, progress))

\* find_agent_delta_y up to its loop: lines 149-153
FindInit ==
    /\ fd_price_after_trade \in PriceCurves
    /\ fd_target_price \in TargetPrices
    /\ fd_b \in StartingBids
    /\ fd_previous_change = SSScale
    /\ fd_p = PriceAfterTrade(fd_price_after_trade, fd_b, 0)
    /\ fd_previous_price = fd_p
    /\ fd_pc = "loop"

\* a call that found its target at the starting bid and has returned
FindIdle ==
    /\ fd_price_after_trade = [kind |-> "flat", quote |-> 30]
    /\ fd_target_price = 30
    /\ fd_b = 100
    /\ fd_previous_change = SSScale
    /\ fd_p = 30
    /\ fd_previous_price = 30
    /\ fd_pc = "returned"

(***************************************************************************)
(* The fee arguments of the Omnipool constructor.  An argument is a        *)
(* number, one schedule for every asset, or a mapping from some of the     *)
(* assets to numbers and schedules.                                        *)
(***************************************************************************)
NoItems == [tkn \in {} |-> Zero]
FeeNumber(x) == [type |-> "number", name |-> "", value |-> x, items |-> NoItems]
FeeSchedule(name) == [type |-> "mechanism", name |-> name, value |-> Zero, items |-> NoItems]
FeeDict(items) == [type |-> "dict", name |-> "", value |-> Zero, items |-> items]

\* basic_fee(f): the schedule that always evaluates to f
basic_fee(f) == [type |-> "mechanism", name |-> "basic", value |-> f, items |-> NoItems]

FeeItemValues == {FeeNumber(Zero), FeeNumber(<<1, 100>>), FeeSchedule("dynamicadd")}
FeeDicts == UNION { [S -> FeeItemValues] : S \in SUBSET Tokens }
FeeArguments ==
    {FeeNumber(Zero), FeeNumber(<<1, 100>>), FeeSchedule("dynamicadd")}
        \cup { FeeDict(items) : items \in FeeDicts }

\* _get_fee, the mapping branch: one entry for every key of the mapping; a
\* number in the mapping is subscripted (fee[tkn]) and raises TypeError
GetFeeOfDict(items) ==
    IF \E tkn \in DOMAIN items : items[tkn].type = "number"
    THEN [raised |-> "TypeError", fees |-> NoItems]
    ELSE [raised |-> "", fees |-> [tkn \in DOMAIN items |-> items[tkn]]]

\* OmnipoolState._get_fee(value)
GetFee(value) ==
    IF value.type = "dict" THEN GetFeeOfDict(value.items)
    ELSE IF value.type = "mechanism" THEN [raised |-> "", fees |-> [tkn \in Tokens |-> value]]
    ELSE [raised |-> "", fees |-> [tkn \in Tokens |-> basic_fee(value.value)]]

\* the constructor's last lines evaluate the schedule of every asset of asset_list
ConstructRaises(asset_fee, lrna_fee) ==
    IF asset_fee.raised # "" THEN asset_fee.raised
    ELSE IF lrna_fee.raised # "" THEN lrna_fee.raised
    ELSE IF \E tkn \in Tokens : tkn \notin DOMAIN asset_fee.fees \/ tkn \notin DOMAIN lrna_fee.fees
    THEN "KeyError"
    ELSE ""

NoFees == [asset_fee |-> NoItems, lrna_fee |-> NoItems]

ConstructInit ==
    /\ ctor_args \in [asset_fee : FeeArguments, lrna_fee : FeeArguments]
    /\ ctor_fees = NoFees
    /\ ctor_pc = "new"

\* a pool constructed with the default fees
ConstructIdle ==
    /\ ctor_args = [asset_fee |-> FeeNumber(Zero), lrna_fee |-> FeeNumber(Zero)]
    /\ ctor_fees = [asset_fee |-> GetFee(FeeNumber(Zero)).fees,
                    lrna_fee |-> GetFee(FeeNumber(Zero)).fees]
    /\ ctor_pc = "built"

(***************************************************************************)
(* One StableSwap sub-pool of the Omnipool.  Its share token is the        *)
(* Omnipool asset SubPoolId; part of its shares lie in the Omnipool, the   *)
(* rest with liquidity providers.                                          *)
(***************************************************************************)
SubPoolId == Stablecoin
SubPoolTokens == {"DAI", "USDC"}
SubPoolInitTokens == [DAI |-> <<1, 1>>, USDC |-> <<7, 1>>]
SubPoolInitShares == <<8, 1>>

NoCall == [tkn_sell |-> "", tkn_buy |-> "", buy_quantity |-> Zero]

\* the Omnipool, the sub-pool and the agent, as one value
Everything ==
    [liquidity |-> liquidity, lrna |-> lrna, shares |-> shares,
     protocol_shares |-> protocol_shares, lrna_imbalance |-> lrna_imbalance,
     holdings |-> holdings, sp_liquidity |-> sp_liquidity, sp_shares |-> sp_shares]

SubPoolIdle ==
    /\ sp_liquidity = SubPoolInitTokens
    /\ sp_shares = SubPoolInitShares
    /\ sp_fail = ""
    /\ sp_call = NoCall
    /\ sp_entry = [e \in {} |-> Zero]
    /\ sp_pc = "idle"

\* sub_pool.calculate_withdrawal_shares(tkn_remove, quantity): the shares that
\* pay for quantity, at the pool's shares per unit of reserve
CalculateWithdrawalShares(tkn_remove, quantity) ==
    RDiv(RMul(quantity, sp_shares), RSum(sp_liquidity, SubPoolTokens))

\* stableswap.execute_withdraw_asset: the reason it rejects the withdrawal, or ""
WithdrawAssetFail(quantity, tkn_remove, agent_shares) ==
    IF RGe(quantity, sp_liquidity[tkn_remove]) THEN "Not enough liquidity in " \o tkn_remove \o "."
    ELSE IF RGt(CalculateWithdrawalShares(tkn_remove, quantity), agent_shares)
    THEN "Agent has insufficient funds."
    ELSE ""

(***************************************************************************)
(* Sub-pool creation and asset migration, on an Omnipool of three assets.  *)
(***************************************************************************)
MaxCalls == 3

MigrationAssets == {"DAI", "USDT", "DOT"}
SubPoolIds == {"stable1", "stable2"}
MigrationNames == MigrationAssets \cup SubPoolIds

\* the tokens the Omnipool is constructed with
MigrationInitTokens ==
    { [DAI |-> [liquidity |-> <<4, 1>>, LRNA |-> <<4, 1>>],
       USDT |-> [liquidity |-> <<6, 1>>, LRNA |-> <<3, 1>>],
       DOT |-> [liquidity |-> <<2, 1>>, LRNA |-> <<8, 1>>]],
      [DAI |-> [liquidity |-> <<5, 1>>, LRNA |-> <<5, 2>>],
       USDT |-> [liquidity |-> <<5, 1>>, LRNA |-> <<5, 2>>],
       DOT |-> [liquidity |-> <<1, 1>>, LRNA |-> <<7, 1>>]] }

NoSubPools == [id \in {} |-> Zero]

MigrationInitOf(tokens) ==
    /\ mg_asset_list = <<"DAI", "USDT", "DOT">>
    /\ mg_liquidity = [t \in MigrationAssets |-> tokens[t].liquidity]
    /\ mg_lrna = [t \in MigrationAssets |-> tokens[t].LRNA]
    /\ mg_shares = [t \in MigrationAssets |-> tokens[t].liquidity]
    /\ mg_protocol_shares = [t \in MigrationAssets |-> Zero]
    /\ mg_sub_pools = NoSubPools
    /\ mg_migrated = {}
    /\ mg_calls = 0
    /\ mg_raised = ""

MigrationInit == \E tokens \in MigrationInitTokens : MigrationInitOf(tokens)

MigrationIdle == MigrationInitOf(CHOOSE tokens \in MigrationInitTokens : tokens.DAI.liquidity = <<4, 1>>)

\* list.remove(x): the list without the first x
RemoveFirst(list, x) ==
    LET i == CHOOSE k \in 1..Len(list) : list[k] = x /\ \A j \in 1..(k - 1) : list[j] # x
    IN SubSeq(list, 1, i - 1) \o SubSeq(list, i + 1, Len(list))

RECURSIVE RemoveEach(_, _)
RemoveEach(list, tkns) ==
    IF tkns = {} THEN list
    ELSE LET t == CHOOSE x \in tkns : TRUE IN RemoveEach(RemoveFirst(list, t), tkns \ {t})

InList(list, x) == \E k \in 1..Len(list) : list[k] = x

\* state.lrna_total
MigrationLrnaTotal == RSum(mg_lrna, DOMAIN mg_lrna)

\* sum([state.lrna[tkn] for tkn in tkns_migrate])
MigratedLrna(tkns_migrate) == RSum(mg_lrna, tkns_migrate)

\* sum([state.lrna[tkn] * state.protocol_shares[tkn] / state.shares[tkn] for tkn in tkns_migrate])
MigratedProtocolShares(tkns_migrate) ==
    RSum([t \in tkns_migrate |-> RDiv(RMul(mg_lrna[t], mg_protocol_shares[t]), mg_shares[t])], tkns_migrate)

\* execute_create_sub_pool: the exception raised before anything is changed, or ""
CreateSubPoolRaises(tkns_migrate) ==
    IF \E t \in tkns_migrate : t \notin DOMAIN mg_liquidity THEN "KeyError"
    ELSE IF \E t \in tkns_migrate : mg_liquidity[t] = Zero \/ mg_shares[t] = Zero THEN "ZeroDivisionError"
    ELSE ""

\* execute_migrate_asset: the exception raised before anything is changed, or ""
MigrateAssetRaises(i, s) ==
    IF s \notin DOMAIN mg_sub_pools THEN "KeyError"
    ELSE IF i \in DOMAIN mg_sub_pools[s].liquidity THEN "AssertionError"
    ELSE IF i \notin DOMAIN mg_liquidity THEN "KeyError"
    ELSE ""

\* shares[s] * lrna[i] / lrna[s] * protocol_shares[i] / shares[i], and so on
MigratedShare(amount, i, s) == RDiv(RMul(mg_lrna[i], amount), mg_lrna[s])

(***************************************************************************)
(* fluctuate_prices on a GlobalState with two priced assets.               *)
(***************************************************************************)
MaxFluctuations == 2

MarketAssets == {"HDX", "DOT"}
InitMarkets == [MarketAssets -> {One, <<5, 2>>}]
Percents == {Zero, <<10, 1>>, <<100, 1>>}
Biases == {Zero, <<1, 10>>, <<-1, 10>>}
\* values of random.random(), from [0, 1)
Draws == {Zero, <<1, 20>>, <<1, 2>>, <<99, 100>>}

NoFluctuation == [percent |-> Zero, bias |-> Zero, draw |-> [a \in MarketAssets |-> Zero]]

FluctuateInit ==
    /\ external_market \in InitMarkets
    /\ fl_old_market = external_market
    /\ fl_call = NoFluctuation
    /\ fl_calls = 0

FluctuateIdle ==
    /\ external_market = [a \in MarketAssets |-> One]
    /\ fl_old_market = external_market
    /\ fl_call = NoFluctuation
    /\ fl_calls = 0

\* 1 / (1 + percent / 100)
FluctuateFloor(percent) == RDiv(One, RAdd(One, RDiv(percent, <<100, 1>>)))

\* the factor of lines 34-38 for one draw of random.random()
FluctuateFactor(percent, bias, draw) ==
    RAdd(RAdd(FluctuateFloor(percent),
              RMul(draw, RAdd(FluctuateFloor(percent), RDiv(percent, <<100, 1>>)))),
         bias)

(***************************************************************************)
(* get_arb_opps over a config of two entries.  An exchange quotes a        *)
(* sell-spot and a buy-spot price for its pair, the first never above the  *)
(* second; 0 is the quote of an empty book.                                *)
(***************************************************************************)
ConfigIndices == {0, 1}
SpotPrices == {Zero, <<9, 1>>, <<10, 1>>, <<11, 1>>}
SpotQuotes == {q \in [sell : SpotPrices, buy : SpotPrices] : RLe(q.sell, q.buy)}

ArbOppsInit ==
    /\ ao_spots \in [ConfigIndices -> [ex_1 : SpotQuotes, ex_2 : SpotQuotes]]
    /\ ao_opps = << >>
    /\ ao_pc = "new"

ArbOppsIdle ==
    /\ ao_spots = [i \in ConfigIndices |-> [ex_1 |-> [sell |-> Zero, buy |-> Zero],
                                             ex_2 |-> [sell |-> Zero, buy |-> Zero]]]
    /\ ao_opps = << >>
    /\ ao_pc = "returned"

\* lines 120-123: the tuple for buying on exchange 2 and selling on exchange 1
OppSellTo1(spots, i) ==
    IF RGt(spots.ex_1.sell, Zero) /\ RLt(spots.ex_2.buy, spots.ex_1.buy)
    THEN << <<RDiv(RSub(spots.ex_1.sell, spots.ex_2.buy), spots.ex_2.buy), i>> >>
    ELSE << >>

\* lines 125-128: the tuple for buying on exchange 1 and selling on exchange 2
OppSellTo2(spots, i) ==
    IF RGt(spots.ex_1.buy, Zero) /\ RGt(spots.ex_2.sell, spots.ex_1.buy)
    THEN << <<RDiv(RSub(spots.ex_2.sell, spots.ex_1.buy), spots.ex_1.buy), i>> >>
    ELSE << >>

\* the division of line 123 by a buy-spot of 0
OppRaises(spots) ==
    RGt(spots.ex_1.sell, Zero) /\ RLt(spots.ex_2.buy, spots.ex_1.buy) /\ spots.ex_2.buy = Zero

\* list.sort(key=lambda x: x[0], reverse=True): stable, largest key first
RECURSIVE SortByRatio(_)
SortByRatio(list) ==
    IF Len(list) <= 1 THEN list
    ELSE LET sorted == SortByRatio(SubSeq(list, 1, Len(list) - 1))
             x == list[Len(list)]
             before == {k \in 1..Len(sorted) : RGe(sorted[k][1], x[1])}
             n == Cardinality(before)
         IN SubSeq(sorted, 1, n) \o <<x>> \o SubSeq(sorted, n + 1, Len(sorted))

\* the list before the sort, entry by entry of config
UnsortedOpps == OppSellTo1(ao_spots[0], 0) \o OppSellTo2(ao_spots[0], 0)
                    \o OppSellTo1(ao_spots[1], 1) \o OppSellTo2(ao_spots[1], 1)

(***************************************************************************)
(* The exchanges of the general arbitrage.  An exchange trades one pair,   *)
(* a token against a numeraire, in whole multiples of min_amt; every unit  *)
(* bought from it raises its two spot prices by one price step, every unit *)
(* sold to it lowers them.                                                 *)
(***************************************************************************)
MinAmt == 1
ExchangeNames == <<"omnipool", "kraken">>
Venues ==
    [mid : {10, 12, 24}, spread : {0, 1}, depth : {2, 8}, pos : {0}, fail : {"", "Pool has insufficient liquidity."}]
Budgets == [tkn : {0, 3, 8}, numeraire : {0, 100}]
BufferPercents == {0, 10}
MaxIters == {1, 2}
\* float('inf'): the holdings of the agent that tries trades
Unlimited == 1000000

buy_spot(v) == v.mid + v.spread + v.pos
sell_spot(v) == v.mid - v.spread + v.pos
buy_limit(v) == v.depth - v.pos
sell_limit(v) == v.depth + v.pos

\* what amt units cost the buyer, what they bring the seller
VenueCost(v, amt) == amt * buy_spot(v) + (amt * (amt - 1)) \div 2
VenueProceeds(v, amt) == amt * sell_spot(v) - (amt * (amt - 1)) \div 2

\* AMM.copy: a copy of its own, fail reset
VenueCopy(v) == [v EXCEPT !.fail = ""]

\* ex.swap(agent, tkn_buy=tkn, tkn_sell=numeraire, buy_quantity=amt), on ex itself
VenueBuy(v, amt, funds) ==
    IF VenueCost(v, amt) > funds
    THEN [venue |-> [v EXCEPT !.fail = "Agent has insufficient funds."], moved |-> 0]
    ELSE IF amt > buy_limit(v)
    THEN [venue |-> [v EXCEPT !.fail = "Pool has insufficient liquidity."], moved |-> 0]
    ELSE [venue |-> [v EXCEPT !.pos = @ + amt], moved |-> VenueCost(v, amt)]

\* ex.swap(agent, tkn_buy=numeraire, tkn_sell=tkn, sell_quantity=amt), on ex itself
VenueSell(v, amt, funds) ==
    IF amt > funds
    THEN [venue |-> [v EXCEPT !.fail = "Agent has insufficient funds."], moved |-> 0]
    ELSE IF amt > sell_limit(v)
    THEN [venue |-> [v EXCEPT !.fail = "Pool has insufficient liquidity."], moved |-> 0]
    ELSE [venue |-> [v EXCEPT !.pos = @ - amt], moved |-> VenueProceeds(v, amt)]

\* lines 234-247: amt traded on copies of both exchanges; prices in hundredths
ArbTrial(c, amt) ==
    LET test_ex_sell == VenueSell(VenueCopy(c.sell_ex), amt, Unlimited).venue
        test_ex_buy == VenueBuy(VenueCopy(c.buy_ex), amt, Unlimited).venue
    IN [buy_price |-> 100 * buy_spot(test_ex_buy),
        sell_price |-> (100 - c.buffer) * sell_spot(test_ex_sell),
        fail |-> test_ex_buy.fail # "" \/ test_ex_sell.fail # ""]

\* line 247: the trial leaves amt_low where it is
TrialAlwaysGood(t) == FALSE

TrialBad(t) == t.fail \/ t.buy_price > t.sell_price

\* lines 224-230: the smallest of the budgets and the two limits
ArbAmtHigh(c) ==
    LET caps == {c.max_liquidity_buy.numeraire, c.max_liquidity_sell.tkn,
                 buy_limit(c.buy_ex), sell_limit(c.sell_ex)}
    IN CHOOSE x \in caps : \A y \in caps : x <= y

\* the one element of a set of one
TheOne(S) == CHOOSE x \in S : TRUE

\* lines 234-266: the binary search; precision is below one hundredth of a price
\* step.  The bounds b0 and the trial t are each worked out once.
RECURSIVE ArbSearch(_, _)
ArbSearch(c, b0) ==
    TheOne({
        IF ~(b.sell_price - b.best_buy_price > 0) THEN b
        ELSE TheOne({
            LET amt_high == IF TrialBad(t) THEN b.amt ELSE b.amt_high
                amt_low == IF TrialBad(t) THEN b.amt_low ELSE b.amt
                best_buy_price == IF TrialBad(t) THEN b.best_buy_price ELSE t.buy_price
                tried == [b EXCEPT !.amt_high = amt_high, !.amt_low = amt_low,
                                   !.best_buy_price = best_buy_price, !.sell_price = t.sell_price,
                                   !.tried = @ \cup {b.amt}]
            IN IF amt_high = amt_low THEN tried
               ELSE LET amt == IF t.sell_price - best_buy_price > 0
                               THEN amt_low + (amt_high - amt_low) \div 2 ELSE b.amt
                    IN IF b.i + 1 >= c.max_iters
                       THEN [tried EXCEPT !.amt = amt, !.i = b.i + 1]
                       ELSE ArbSearch(c, [tried EXCEPT !.amt = amt, !.i = b.i + 1])
            : t \in {ArbTrial(c, b.amt)}})
        : b \in {b0}})

\* calculate_arb_amount(buy_ex, sell_ex, ..., buffer, min_amt, max_liquidity_sell,
\* max_liquidity_buy, precision, max_iters): the amount and the amounts tried
CalculateArbAmount(c) ==
    TheOne({
        IF TrialBad(probe) THEN [amt |-> 0, tried |-> {}]
        ELSE TheOne({
            [amt |-> IF b.amt_low = MinAmt THEN 0 ELSE b.amt_low, tried |-> b.tried]
            : b \in {ArbSearch(c, [amt_low |-> MinAmt, amt_high |-> ArbAmtHigh(c), amt |-> ArbAmtHigh(c),
                                   i |-> 0, best_buy_price |-> probe.buy_price,
                                   sell_price |-> probe.sell_price, tried |-> {}])}})
        : probe \in {ArbTrial(c, MinAmt)}})

NoCalc == [called |-> FALSE, buy_ex |-> [mid |-> 0, spread |-> 0, depth |-> 0, pos |-> 0, fail |-> ""],
           sell_ex |-> [mid |-> 0, spread |-> 0, depth |-> 0, pos |-> 0, fail |-> ""],
           max_liquidity_buy |-> [tkn |-> 0, numeraire |-> 0],
           max_liquidity_sell |-> [tkn |-> 0, numeraire |-> 0],
           buffer |-> 0, max_iters |-> 0, amt |-> 0, tried |-> {}]

\* the spot prices get_arb_opps reads from the two exchanges of the config entry
SpotsOf(heap, refs) ==
    [ex_1 |-> [sell |-> <<sell_spot(heap[refs[1]]), 1>>, buy |-> <<buy_spot(heap[refs[1]]), 1>>],
     ex_2 |-> [sell |-> <<sell_spot(heap[refs[2]]), 1>>, buy |-> <<buy_spot(heap[refs[2]]), 1>>]]

\* get_arb_opps(exchanges, config) for the config of one entry
ArbOppsOf(heap, refs) ==
    TheOne({TheOne({SortByRatio(opps) : opps \in {OppSellTo1(spots, 0) \o OppSellTo2(spots, 0)}})
            : spots \in {SpotsOf(heap, refs)}})

ArbSwapsInit ==
    /\ \E v1 \in Venues, v2 \in Venues : v2.fail = "" /\ arb_heap = <<v1, v2, v1, v2>>
    /\ arb_exchanges = <<1, 2>>
    /\ arb_test_exchanges = <<0, 0>>
    /\ arb_max_liquidity \in [{1, 2} -> Budgets]
    /\ arb_opps = << >>
    /\ arb_all_swaps = << >>
    /\ arb_calc = NoCalc
    /\ arb_args \in [buffer : BufferPercents, max_iters : MaxIters]
    /\ arb_before = <<arb_heap[1], arb_heap[2]>>
    /\ arb_pc = "new"

ArbSwapsIdle ==
    /\ arb_heap = [k \in 1..4 |-> [mid |-> 10, spread |-> 0, depth |-> 2, pos |-> 0, fail |-> ""]]
    /\ arb_exchanges = <<1, 2>>
    /\ arb_test_exchanges = <<3, 4>>
    /\ arb_max_liquidity = [k \in {1, 2} |-> [tkn |-> 0, numeraire |-> 0]]
    /\ arb_opps = << >>
    /\ arb_all_swaps = << >>
    /\ arb_calc = NoCalc
    /\ arb_args = [buffer |-> 0, max_iters |-> 1]
    /\ arb_before = <<arb_heap[1], arb_heap[2]>>
    /\ arb_pc = "returned"

(***************************************************************************)
(* The single-pair arbitrage against an order book: the pair is DOT        *)
(* against USDT, the pool charges no fee of its own, and the asks are too  *)
(* dear for the sell branch.                                               *)
(***************************************************************************)
BidTkn == "DOT"
BidNumeraire == "USDT"
BidPool ==
    [liquidity |-> [DOT |-> <<10, 1>>, USDT |-> <<10, 1>>],
     lrna |-> [DOT |-> <<10, 1>>, USDT |-> <<10, 1>>],
     fail |-> ""]
Bids == [price : {<<1, 2>>, <<3, 2>>, <<2, 1>>, <<3, 1>>}, amount : {One, <<2, 1>>}]
BidLists == {<<b>> : b \in Bids} \cup {<<b, c>> : b \in Bids, c \in Bids}
CexFees == {Zero, <<1, 10>>}
Iters == {1, 3}

BidWalkInit ==
    /\ bw_pool = BidPool
    /\ bw_bids \in BidLists
    /\ bw_args \in [cex_fee : CexFees, iters : Iters]
    /\ bw_swaps = << >>
    /\ bw_pc = "new"

BidWalkIdle ==
    /\ bw_pool = BidPool
    /\ bw_bids = <<[price |-> One, amount |-> One]>>
    /\ bw_args = [cex_fee |-> Zero, iters |-> 1]
    /\ bw_swaps = << >>
    /\ bw_pc = "returned"

\* sorted(bids, key=lambda x: x['price'], reverse=True): stable, dearest first
RECURSIVE SortBids(_)
SortBids(bids) ==
    IF Len(bids) <= 1 THEN bids
    ELSE LET sorted == SortBids(SubSeq(bids, 1, Len(bids) - 1))
             x == bids[Len(bids)]
             n == Cardinality({k \in 1..Len(sorted) : RGe(sorted[k].price, x.price)})
         IN SubSeq(sorted, 1, n) \o <<x>> \o SubSeq(sorted, n + 1, Len(sorted))

\* bids[k] as Python indexes it: from 0, and from the end when k is negative
PyIndex(bids, k) == IF k < 0 THEN bids[Len(bids) + k + 1] ELSE bids[k + 1]

\* OmnipoolState.price(state, tkn, denominator)
PoolPrice(p, tkn, denominator) ==
    IF p.liquidity[tkn] = Zero THEN Zero
    ELSE RMul(RDiv(RDiv(p.lrna[tkn], p.liquidity[tkn]), p.lrna[denominator]), p.liquidity[denominator])

\* state.copy(): a copy of its own, fail reset
PoolCopy(p) == [p EXCEPT !.fail = ""]

\* state.swap(agent, tkn_buy, tkn_sell, buy_quantity) on state itself, the pool
\* charging no fee and the agent holding enough
PoolBuy(p, tkn_buy, tkn_sell, buy_quantity) ==
    IF buy_quantity = Zero THEN [p EXCEPT !.fail = "sell amount must be greater than zero"]
    ELSE LET delta_Qj0 == RDiv(RMul(p.lrna[tkn_buy], buy_quantity), RSub(p.liquidity[tkn_buy], buy_quantity))
             delta_Ri == RDiv(RMul(p.liquidity[tkn_sell], delta_Qj0), RSub(p.lrna[tkn_sell], delta_Qj0))
             delta_Qi == RDiv(RMul(p.lrna[tkn_sell], RNeg(delta_Ri)), RAdd(p.liquidity[tkn_sell], delta_Ri))
             delta_Qj == RNeg(delta_Qi)
         IN [p EXCEPT !.lrna[tkn_sell] = RAdd(@, delta_Qi),
                      !.lrna[tkn_buy] = RAdd(@, delta_Qj),
                      !.liquidity[tkn_sell] = RAdd(@, delta_Ri),
                      !.liquidity[tkn_buy] = RSub(@, buy_quantity)]

\* lines 16-17, 31-32: op_spot / ((1 - lrna_fee) * (1 - asset_fee)) with both fees 0.0
BuySpotOf(p) == PoolPrice(p, BidTkn, BidNumeraire)

\* bid['price'] * (1 - cex_fee)
NetBidPrice(bid, cex_fee) == RMul(bid.price, RSub(One, cex_fee))

\* lines 33-34: the walk leaves the loop at this bid
WalkBreaks(buy_spot_after, bid, cex_fee) == RLt(buy_spot_after, NetBidPrice(bid, cex_fee))

\* lines 26-37: the walk from w = [i, op_state, buy_spot]
RECURSIVE BidWalk(_, _, _)
BidWalk(bids, cex_fee, w) ==
    IF ~(w.i < Len(bids)) THEN w
    ELSE LET test_state == PoolBuy(PoolCopy(w.op_state), BidTkn, BidNumeraire, PyIndex(bids, w.i).amount)
             spot_after == BuySpotOf(test_state)
         IN IF WalkBreaks(spot_after, PyIndex(bids, w.i), cex_fee)
            THEN [w EXCEPT !.buy_spot = spot_after]
            ELSE BidWalk(bids, cex_fee, [i |-> w.i + 1, op_state |-> test_state, buy_spot |-> spot_after])

\* lines 45-60: the binary search from b = [amt_low, amt_high, i]
RECURSIVE BidSearch(_, _, _, _, _)
BidSearch(op_state, bid, cex_fee, iters, b) ==
    IF ~(b.i < iters) THEN b
    ELSE LET amt == RAdd(b.amt_low, RDiv(RSub(b.amt_high, b.amt_low), <<2, 1>>))
             test_state == PoolBuy(PoolCopy(op_state), BidTkn, BidNumeraire, amt)
             spot_after == BuySpotOf(test_state)
         IN IF RGt(spot_after, NetBidPrice(bid, cex_fee))
            THEN BidSearch(op_state, bid, cex_fee, iters, [b EXCEPT !.amt_high = amt, !.i = @ + 1])
            ELSE IF RLt(spot_after, NetBidPrice(bid, cex_fee))
            THEN BidSearch(op_state, bid, cex_fee, iters, [b EXCEPT !.amt_low = amt, !.i = @ + 1])
            ELSE b

\* ('buy', bids[j]) and ('buy', {'price': bid['price'], 'amount': amt_low})
BuyLeg(price, amount) == [kind |-> "buy", price |-> price, amount |-> amount]
FullLegs(bids, n) == [j \in 1..(IF n < 0 THEN 0 ELSE n) |-> BuyLeg(bids[j].price, bids[j].amount)]

LaterIdle == ConstructIdle /\ SubPoolIdle /\ MigrationIdle /\ FluctuateIdle /\ ArbOppsIdle /\ ArbSwapsIdle /\ BidWalkIdle

\* the Omnipool under every configuration, beside one StableSwap pool
Init ==
    /\ OmnipoolInit
    /\ StableSwapInit
    /\ ss_config.trade_fee = 0
    /\ FeeIdle
    /\ StrategyIdle
    /\ MoneyMarketIdle
    /\ FindIdle
    /\ LaterIdle
    /\ ops = 0
    /\ last = NoOp

\* the StableSwap pool under every configuration, beside one Omnipool
InitSS ==
    /\ OmnipoolInit
    /\ StableSwapInit
    /\ FeeIdle
    /\ StrategyIdle
    /\ MoneyMarketIdle
    /\ FindIdle
    /\ LaterIdle
    /\ config.trade_limit_per_block = Inf
    /\ \A t \in Tokens : config.asset_fee[t] = Zero /\ config.lrna_fee[t] = Zero
    /\ ~Has(LRNA)
    /\ ops = 0
    /\ last = NoOp

\* f with f[k] set to v, k added to the domain when absent
Put(f, k, v) == [x \in DOMAIN f \cup {k} |-> IF x = k THEN v ELSE f[x]]

\* AMM.fail_transaction: fail is set, state and agent are returned as they are
FailTransaction(error, rec) ==
    /\ fail' = error
    /\ last' = [rec EXCEPT !.result = "rejected"]
    /\ ops' = ops + 1
    /\ UNCHANGED <<pool_vars, agent_vars, config>>
(***************************************************************************)
(* execute_swap: the basic Omnipool swap of asset i for asset j.           *)
(***************************************************************************)
\* basic_fee(value).compute(tkn, delta_tkn) returns value
AssetFee(tkn) == config.asset_fee[tkn]
LrnaFee(tkn) == config.lrna_fee[tkn]

SwapAssetFee(tkn_buy, tkn_sell) == AssetFee(tkn_sell)
SwapLrnaFee(tkn_buy, tkn_sell) == LrnaFee(tkn_buy)

SwapDeltaQi(i, delta_Ri) ==
    RDiv(RMul(lrna[i], RNeg(delta_Ri)), RAdd(liquidity[i], delta_Ri))

SwapDeltaQj(delta_Qi, lrna_fee) == RMul(RNeg(delta_Qi), RSub(One, lrna_fee))

SwapDeltaRj(j, delta_Qj, asset_fee) ==
    RMul(RDiv(RMul(liquidity[j], RNeg(delta_Qj)), RAdd(lrna[j], delta_Qj)),
         RSub(One, asset_fee))

SwapDeltaL(delta_Qi, lrna_fee) ==
    RMin(RMul(RNeg(delta_Qi), lrna_fee), RNeg(lrna_imbalance))

\* delta_QH with the hub fee left out of the collector's credit
SwapDeltaQHWithoutFee(delta_Qi, lrna_fee, delta_L) == RNeg(delta_L)

SwapDeltaQH(delta_Qi, lrna_fee, delta_L) ==
    RSub(RMul(RNeg(lrna_fee), delta_Qi), delta_L)

\* x > trade_limit_per_block * current_block.liquidity[tkn]
ExceedsTradeLimit(x, tkn) ==
    IF IsInf(config.trade_limit_per_block) THEN FALSE
    ELSE RGt(x, RMul(config.trade_limit_per_block, current_block.liquidity[tkn]))

\* the "update oracle" tail of execute_swap, from the old and new pool
OracleUpdate(tkn_buy, tkn_sell, new_liquidity, new_lrna) ==
    [liquidity |-> current_block.liquidity,
     price |-> [t \in Tokens |->
                  IF t \in {tkn_buy, tkn_sell} THEN RDiv(new_lrna[t], new_liquidity[t])
                  ELSE current_block.price[t]],
     volume_in |-> [t \in Tokens |->
                  IF t = tkn_sell
                  THEN RAdd(current_block.volume_in[t], RSub(new_liquidity[t], liquidity[t]))
                  ELSE current_block.volume_in[t]],
     volume_out |-> [t \in Tokens |->
                  IF t = tkn_buy
                  THEN RAdd(current_block.volume_out[t], RSub(liquidity[t], new_liquidity[t]))
                  ELSE current_block.volume_out[t]]]

BlockIsNum(b) ==
    \A t \in Tokens : IsNum(b.volume_in[t]) /\ IsNum(b.volume_out[t]) /\ IsNum(b.price[t])

LedgerIsNum(f) == \A k \in DOMAIN f : IsNum(f[k])

\* state.lrna after the swap: i, then j, then the fee collector 'HDX'
SwapLrna(i, j, delta_Qi, delta_Qj, delta_QH) ==
    [t \in Tokens |->
        RAdd(RAdd(RAdd(lrna[t], IF t = i THEN delta_Qi ELSE Zero),
                  IF t = j THEN delta_Qj ELSE Zero),
             IF t = "HDX" THEN delta_QH ELSE Zero)]

SwapLiquidity(i, j, delta_Ri, delta_j) ==
    [t \in Tokens |->
        RAdd(RAdd(liquidity[t], IF t = i THEN delta_Ri ELSE Zero),
             IF t = j THEN delta_j ELSE Zero)]

\* agent.holdings with the bought asset never credited
SwapHoldingsWithoutCredit(i, j, delta_Ri, delta_j) ==
    [k \in DOMAIN holdings \cup {j} |->
        RSub(IF Has(k) THEN holdings[k] ELSE Zero, IF k = i THEN delta_Ri ELSE Zero)]

\* agent.holdings after the swap; j is added with 0 when absent
SwapHoldings(i, j, delta_Ri, delta_j) ==
    [k \in DOMAIN holdings \cup {j} |->
        RSub(RSub(IF Has(k) THEN holdings[k] ELSE Zero,
                  IF k = i THEN delta_Ri ELSE Zero),
             IF k = j THEN delta_j ELSE Zero)]

\* the net flows the per-block trade limit is checked against
SwapNetOut(tkn_buy, delta_Rj) ==
    RAdd(RSub(RNeg(delta_Rj), current_block.volume_in[tkn_buy]),
         current_block.volume_out[tkn_buy])

SwapNetIn(tkn_sell, delta_Ri) ==
    RSub(RAdd(delta_Ri, current_block.volume_in[tkn_sell]),
         current_block.volume_out[tkn_sell])

BasicSwapApply(rec, tkn_buy, tkn_sell, delta_Ri, delta_Qi, delta_Qj, delta_j, delta_L, delta_QH) ==
    \E new_lrna \in {SwapLrna(tkn_sell, tkn_buy, delta_Qi, delta_Qj, delta_QH)},
       new_liquidity \in {SwapLiquidity(tkn_sell, tkn_buy, delta_Ri, delta_j)},
       new_holdings \in {SwapHoldings(tkn_sell, tkn_buy, delta_Ri, delta_j)},
       new_imbalance \in {RAdd(lrna_imbalance, delta_L)} :
    \E new_block \in {OracleUpdate(tkn_buy, tkn_sell, new_liquidity, new_lrna)} :
        /\ LedgerIsNum(new_lrna)
        /\ LedgerIsNum(new_liquidity)
        /\ LedgerIsNum(new_holdings)
        /\ IsNum(new_imbalance)
        /\ BlockIsNum(new_block)
        /\ lrna' = new_lrna
        /\ liquidity' = new_liquidity
        /\ lrna_imbalance' = new_imbalance
        /\ holdings' = new_holdings
        /\ current_block' = new_block
        /\ last' = rec
        /\ ops' = ops + 1
        /\ UNCHANGED <<shares, protocol_shares, fail, config, share_prices>>

BasicSwap(rec, tkn_buy, tkn_sell, buy_quantity, sell_quantity) ==
    /\ IsNum(sell_quantity)
    /\ IF RLe(sell_quantity, Zero)
       THEN FailTransaction("sell amount must be greater than zero", rec)
       ELSE
        \E asset_fee \in {SwapAssetFee(tkn_buy, tkn_sell)},
           lrna_fee \in {SwapLrnaFee(tkn_buy, tkn_sell)},
           delta_Qi \in {SwapDeltaQi(tkn_sell, sell_quantity)} :
        \E delta_Qj \in {SwapDeltaQj(delta_Qi, lrna_fee)},
           delta_L \in {SwapDeltaL(delta_Qi, lrna_fee)} :
        \E delta_Rj \in {SwapDeltaRj(tkn_buy, delta_Qj, asset_fee)},
           delta_QH \in {SwapDeltaQH(delta_Qi, lrna_fee, delta_L)} :
        \E net_out \in {SwapNetOut(tkn_buy, delta_Rj)},
           net_in \in {SwapNetIn(tkn_sell, sell_quantity)} :
            /\ AllNum(<<delta_Qi, delta_Qj, delta_Rj, delta_L, delta_QH, net_out, net_in>>)
            /\ Has(tkn_sell)
            /\ IF RGt(RAdd(liquidity[tkn_sell], sell_quantity), <<LiquidityCeiling, 1>>)
               THEN FailTransaction("Asset liquidity cannot exceed 10 ^ 12.", rec)
               ELSE IF RLt(holdings[tkn_sell], sell_quantity)
               THEN FailTransaction("Agent doesn't have enough " \o tkn_sell, rec)
               ELSE IF ExceedsTradeLimit(net_out, tkn_buy)
               THEN FailTransaction("per block trade limit exceeded in " \o tkn_buy, rec)
               ELSE IF ExceedsTradeLimit(net_in, tkn_sell)
               THEN FailTransaction("per block trade limit exceeded in " \o tkn_sell, rec)
               ELSE BasicSwapApply(rec, tkn_buy, tkn_sell, sell_quantity, delta_Qi, delta_Qj,
                                   \* -buy_quantity or delta_Rj
                                   IF buy_quantity # Zero THEN RNeg(buy_quantity) ELSE delta_Rj,
                                   delta_L, delta_QH)

\* calculate_sell_from_buy
CalculateSellFromBuy(tkn_buy, tkn_sell, buy_quantity) ==
    LET asset_fee == AssetFee(tkn_buy)
        delta_Qj == RDiv(RMul(lrna[tkn_buy], buy_quantity),
                         RSub(RMul(liquidity[tkn_buy], RSub(One, asset_fee)), buy_quantity))
        lrna_fee == LrnaFee(tkn_sell)
        delta_Qi == RDiv(RNeg(delta_Qj), RSub(One, lrna_fee))
    IN RDiv(RMul(RNeg(liquidity[tkn_sell]), delta_Qi), RAdd(lrna[tkn_sell], delta_Qi))
(***************************************************************************)
(* execute_lrna_swap: the four parameterizations of a hub-asset swap.      *)
(***************************************************************************)
LrnaDeltas(delta_qa, delta_ra, delta_qi, delta_ri) ==
    [delta_qa |-> delta_qa, delta_ra |-> delta_ra, delta_qi |-> delta_qi, delta_ri |-> delta_ri]

\* selling LRNA: delta_qa < 0 given
SellLrnaDeltaRi(tkn, delta_qi, asset_fee) ==
    RMul(RDiv(RMul(liquidity[tkn], RNeg(delta_qi)), RAdd(delta_qi, lrna[tkn])),
         RSub(One, asset_fee))

\* buying the asset with LRNA: delta_ra > 0 given
BuyAssetDeltaQi(tkn, delta_ri, asset_fee) ==
    RDiv(RMul(lrna[tkn], RNeg(delta_ri)),
         RAdd(RMul(liquidity[tkn], RSub(One, asset_fee)), delta_ri))

\* buying LRNA: delta_qa > 0 given
BuyLrnaDeltaRi(tkn, delta_qi, lrna_fee) ==
    RDiv(RDiv(RMul(liquidity[tkn], RNeg(delta_qi)), RAdd(delta_qi, lrna[tkn])),
         RSub(One, lrna_fee))

\* selling the asset for LRNA: delta_ra < 0 given
SellAssetDeltaQi(tkn, delta_ri, lrna_fee) ==
    RDiv(RMul(lrna[tkn], RNeg(delta_ri)),
         RAdd(RDiv(liquidity[tkn], RSub(One, lrna_fee)), delta_ri))

\* lines 416-440: the deltas of the branch taken
LrnaSwapDeltas(tkn, delta_ra, delta_qa) ==
    IF RLt(delta_qa, Zero) \/ RGt(delta_ra, Zero)
    THEN IF RLt(delta_qa, Zero)
         THEN LrnaDeltas(delta_qa,
                         RNeg(SellLrnaDeltaRi(tkn, RNeg(delta_qa), AssetFee(tkn))),
                         RNeg(delta_qa),
                         SellLrnaDeltaRi(tkn, RNeg(delta_qa), AssetFee(tkn)))
         ELSE LrnaDeltas(RNeg(BuyAssetDeltaQi(tkn, RNeg(delta_ra), AssetFee(tkn))),
                         delta_ra,
                         BuyAssetDeltaQi(tkn, RNeg(delta_ra), AssetFee(tkn)),
                         RNeg(delta_ra))
    ELSE IF RGt(delta_qa, Zero)
         THEN LrnaDeltas(delta_qa,
                         RNeg(BuyLrnaDeltaRi(tkn, RNeg(delta_qa), LrnaFee(tkn))),
                         RNeg(delta_qa),
                         BuyLrnaDeltaRi(tkn, RNeg(delta_qa), LrnaFee(tkn)))
         ELSE LrnaDeltas(RNeg(SellAssetDeltaQi(tkn, RNeg(delta_ra), LrnaFee(tkn))),
                         delta_ra,
                         SellAssetDeltaQi(tkn, RNeg(delta_ra), LrnaFee(tkn)),
                         RNeg(delta_ra))

\* lrna_imbalance after a hub-asset swap with modify_imbalance
LrnaSwapImbalance(tkn, new_lrna, new_liquidity) ==
    RSub(RMul(RMul(RDiv(RMul(RSum(new_lrna, Tokens), new_liquidity[tkn]), new_lrna[tkn]),
                   RDiv(lrna[tkn], liquidity[tkn])),
              RAdd(One, RDiv(lrna_imbalance, lrna_total))),
         RSum(new_lrna, Tokens))

\* a rejected hub-asset swap: fail_transaction, then the oracle tail of execute_swap
LrnaSwapFail(tkn_buy, tkn_sell, error, rec) ==
    /\ fail' = error
    /\ current_block' = OracleUpdate(tkn_buy, tkn_sell, liquidity, lrna)
    /\ last' = [rec EXCEPT !.result = "rejected"]
    /\ ops' = ops + 1
    /\ UNCHANGED <<liquidity, lrna, shares, protocol_shares, lrna_imbalance,
                   agent_vars, config>>

\* lines 453-471, once the checks have passed
LrnaSwapApply(rec, tkn_buy, tkn_sell, tkn, d, new_holdings, lrna1, new_liquidity, modify_imbalance) ==
    \E lrna_fee_amt \in {RNeg(RAdd(d.delta_qa, d.delta_qi))} :
    \E delta_l \in {RMin(RNeg(lrna_imbalance), lrna_fee_amt)} :
    \E new_imbalance \in
          {IF modify_imbalance THEN LrnaSwapImbalance(tkn, lrna1, new_liquidity)
           ELSE IF RGt(d.delta_qa, Zero) THEN RAdd(lrna_imbalance, delta_l)
           ELSE lrna_imbalance},
       new_lrna \in
          {IF ~modify_imbalance /\ RGt(d.delta_qa, Zero)
           THEN [lrna1 EXCEPT !["HDX"] = RAdd(@, RSub(lrna_fee_amt, delta_l))]
           ELSE lrna1} :
    \E new_block \in {OracleUpdate(tkn_buy, tkn_sell, new_liquidity, new_lrna)} :
        /\ IsNum(new_imbalance)
        /\ LedgerIsNum(new_lrna)
        /\ BlockIsNum(new_block)
        /\ holdings' = new_holdings
        /\ lrna' = new_lrna
        /\ liquidity' = new_liquidity
        /\ lrna_imbalance' = new_imbalance
        /\ current_block' = new_block
        /\ last' = rec
        /\ ops' = ops + 1
        /\ UNCHANGED <<shares, protocol_shares, fail, config, share_prices>>

ExecuteLrnaSwap(rec, tkn_buy, tkn_sell, delta_ra0, delta_qa0, tkn, modify_imbalance) ==
    IF delta_ra0 = Zero /\ delta_qa0 = Zero
    THEN LrnaSwapFail(tkn_buy, tkn_sell, "Buying LRNA not implemented.", rec)
    ELSE
     \E d \in {LrnaSwapDeltas(tkn, delta_ra0, delta_qa0)} :
        /\ AllNum(<<d.delta_qa, d.delta_ra, d.delta_qi, d.delta_ri>>)
        /\ Has(LRNA)
        /\ Has(tkn)
        /\ \E new_holdings \in
                 {[k \in DOMAIN holdings |->
                     RAdd(RAdd(holdings[k], IF k = LRNA THEN d.delta_qa ELSE Zero),
                          IF k = tkn THEN d.delta_ra ELSE Zero)]},
              lrna1 \in {[lrna EXCEPT ![tkn] = RAdd(@, d.delta_qi)]},
              new_liquidity \in {[liquidity EXCEPT ![tkn] = RAdd(@, d.delta_ri)]} :
            /\ AllNum(<<new_holdings[LRNA], new_holdings[tkn],
                        new_liquidity[tkn], lrna1[tkn]>>)
            /\ IF RLt(new_holdings[LRNA], Zero)
               THEN LrnaSwapFail(tkn_buy, tkn_sell, "agent doesn't have enough lrna", rec)
               ELSE IF RLt(new_holdings[tkn], Zero)
               THEN LrnaSwapFail(tkn_buy, tkn_sell, "agent doesn't have enough " \o tkn \o " holdings", rec)
               ELSE IF RLe(new_liquidity[tkn], Zero)
               THEN LrnaSwapFail(tkn_buy, tkn_sell, "insufficient assets in pool", rec)
               ELSE IF RLe(lrna1[tkn], Zero)
               THEN LrnaSwapFail(tkn_buy, tkn_sell, "insufficient lrna in pool", rec)
               ELSE LrnaSwapApply(rec, tkn_buy, tkn_sell, tkn, d, new_holdings, lrna1,
                                  new_liquidity, modify_imbalance)

(***************************************************************************)
(* execute_swap: the dispatch.  Sub-pool routing (execute_stable_swap) is  *)
(* outside this model: every asset is an Omnipool asset or LRNA.           *)
(***************************************************************************)
SwapRecord(tkn_buy, tkn_sell, buy_quantity, sell_quantity) ==
    [op |-> "execute_swap", result |-> "accepted",
     tkn_sell |-> tkn_sell, tkn_buy |-> tkn_buy,
     sell_quantity |-> sell_quantity, buy_quantity |-> buy_quantity]

ExecuteSwap(tkn_buy, tkn_sell, buy_quantity, sell_quantity, modify_imbalance) ==
    \E rec \in {SwapRecord(tkn_buy, tkn_sell, buy_quantity, sell_quantity)} :
        /\ ops < MaxOps
        /\ IF tkn_buy = tkn_sell
           THEN UNCHANGED vars
           ELSE IF tkn_sell = LRNA
           THEN ExecuteLrnaSwap(rec, tkn_buy, tkn_sell, buy_quantity, RNeg(sell_quantity),
                                tkn_buy, modify_imbalance)
           ELSE IF tkn_buy = LRNA
           THEN ExecuteLrnaSwap(rec, tkn_buy, tkn_sell, RNeg(sell_quantity), buy_quantity,
                                tkn_sell, modify_imbalance)
           ELSE IF buy_quantity # Zero /\ sell_quantity = Zero
           THEN \E delta_Ri \in {CalculateSellFromBuy(tkn_buy, tkn_sell, buy_quantity)} :
                    BasicSwap(rec, tkn_buy, tkn_sell, buy_quantity, delta_Ri)
           ELSE BasicSwap(rec, tkn_buy, tkn_sell, buy_quantity, sell_quantity)

(***************************************************************************)
(* add_liquidity (OmnipoolState.add_liquidity): works on copies and        *)
(* returns them, or returns old_state.fail_transaction(...).               *)
(***************************************************************************)
\* lrna_price(state, i): 0 for an empty pool
LrnaPrice(liq, q, tkn) == IF liq[tkn] = Zero THEN Zero ELSE RDiv(q[tkn], liq[tkn])

\* total_value_locked of a pool with these ledgers
TotalValueLocked(liq, q) ==
    RDiv(RMul(liq[Stablecoin], RSum(q, Tokens)), q[Stablecoin])

\* weight_i of a pool with this lrna ledger
Weight(q, tkn) == RDiv(q[tkn], RSum(q, Tokens))

AddLiquidityShares(tkn_add, quantity) ==
    IF shares[tkn_add] # Zero
    THEN RMul(shares[tkn_add],
              RDiv(RAdd(liquidity[tkn_add], quantity), liquidity[tkn_add]))
    ELSE RAdd(liquidity[tkn_add], quantity)

\* the hub asset minted one for one with the deposit, whatever the price
AddLiquidityDeltaQAtPar(tkn_add, quantity) == quantity

AddLiquidityDeltaQ(tkn_add, quantity) == RMul(LrnaPrice(liquidity, lrna, tkn_add), quantity)

AddLiquidityDeltaL(tkn_add, quantity) ==
    RDiv(RMul(RDiv(RMul(quantity, lrna[tkn_add]), liquidity[tkn_add]), lrna_imbalance),
         lrna_total)

\* the weight cap tested on the weight before the deposit
ExceedsWeightCapBeforeDeposit(tkn_add, new_lrna) ==
    RGt(Weight(lrna, tkn_add), config.weight_cap[tkn_add])

\* new_state.lrna[tkn_add] / new_state.lrna_total > new_state.weight_cap[tkn_add]
ExceedsWeightCap(tkn_add, new_lrna) ==
    RGt(Weight(new_lrna, tkn_add), config.weight_cap[tkn_add])

ExceedsTvlCap(new_liquidity, new_lrna) ==
    IF IsInf(config.tvl_cap) THEN FALSE
    ELSE RGt(TotalValueLocked(new_liquidity, new_lrna), config.tvl_cap)

ExceedsCeiling(new_liquidity, tkn_add) ==
    RGt(new_liquidity[tkn_add], <<LiquidityCeiling, 1>>)

\* new_agent.holdings: the deposit leaves, the minted shares arrive
AddLiquidityHoldings(tkn_add, quantity, new_shares) ==
    [k \in DOMAIN holdings \cup {ShareKey[tkn_add]} |->
        IF k = tkn_add THEN RSub(holdings[k], quantity)
        ELSE IF k = ShareKey[tkn_add]
        THEN RAdd(IF Has(k) THEN holdings[k] ELSE Zero, RSub(new_shares, shares[tkn_add]))
        ELSE holdings[k]]

AddLiquidityRecord(quantity, tkn_add) ==
    [op |-> "add_liquidity", result |-> "accepted",
     tkn_sell |-> tkn_add, tkn_buy |-> "",
     sell_quantity |-> quantity, buy_quantity |-> Zero]

AddLiquidityApply(rec, tkn_add, new_liquidity, new_lrna, new_shares, new_holdings, new_imbalance) ==
    \E new_price \in {RDiv(new_lrna[tkn_add], new_liquidity[tkn_add])} :
        /\ IsNum(new_price)
        /\ liquidity' = new_liquidity
        /\ shares' = [shares EXCEPT ![tkn_add] = new_shares]
        /\ lrna' = new_lrna
        /\ lrna_imbalance' = new_imbalance
        /\ holdings' = new_holdings
        /\ share_prices' = Put(share_prices, tkn_add, new_price)
        /\ fail' = ""
        /\ last' = rec
        /\ ops' = ops + 1
        /\ UNCHANGED <<protocol_shares, current_block, config>>

AddLiquidity(quantity, tkn_add) ==
    \E rec \in {AddLiquidityRecord(quantity, tkn_add)} :
        /\ ops < MaxOps
        /\ Has(tkn_add)
        /\ IF RLt(RSub(holdings[tkn_add], quantity), Zero)
           THEN FailTransaction(
                    "Transaction rejected because agent has insufficient funds.", rec)
           ELSE
            \E new_liquidity \in {[liquidity EXCEPT ![tkn_add] = RAdd(@, quantity)]},
               new_shares \in {AddLiquidityShares(tkn_add, quantity)},
               new_lrna \in {[lrna EXCEPT ![tkn_add] =
                                 RAdd(@, AddLiquidityDeltaQ(tkn_add, quantity))]},
               new_imbalance \in {RAdd(lrna_imbalance, AddLiquidityDeltaL(tkn_add, quantity))} :
            \E new_holdings \in {AddLiquidityHoldings(tkn_add, quantity, new_shares)} :
                /\ AllNum(<<new_liquidity[tkn_add], new_shares, new_lrna[tkn_add],
                            new_imbalance, Weight(new_lrna, tkn_add),
                            TotalValueLocked(new_liquidity, new_lrna)>>)
                /\ LedgerIsNum(new_holdings)
                /\ IF ExceedsWeightCap(tkn_add, new_lrna)
                   THEN FailTransaction(
                       "Transaction rejected because it would exceed the weight cap in pool[{i}].",
                       rec)
                   ELSE IF ExceedsTvlCap(new_liquidity, new_lrna)
                   THEN FailTransaction(
                       "Transaction rejected because it would exceed the TVL cap.", rec)
                   ELSE IF ExceedsCeiling(new_liquidity, tkn_add)
                   THEN FailTransaction("Asset liquidity cannot exceed 10 ^ 12.", rec)
                   ELSE AddLiquidityApply(rec, tkn_add, new_liquidity, new_lrna, new_shares,
                                          new_holdings, new_imbalance)

(***************************************************************************)
(* remove_liquidity (OmnipoolState.remove_liquidity): copies the pool and  *)
(* the agent, then runs execute_remove_liquidity on the copies.            *)
(***************************************************************************)
\* calculate_remove_liquidity; quantity is -abs(quantity) in these
RemoveLiquidityMult(piq, p0) == RDiv(RSub(piq, p0), RAdd(piq, p0))

RemoveLiquidityDeltaB(mult, quantity) == RMax(RMul(mult, quantity), Zero)

\* delta_s with the protocol's share left out
RemoveLiquidityDeltaSWithoutProtocol(quantity, delta_b) == quantity

RemoveLiquidityDeltaS(quantity, delta_b) == RAdd(quantity, delta_b)

RemoveLiquidityDeltaR(tkn_remove, quantity, delta_b) ==
    RMul(liquidity[tkn_remove],
         RMax(RDiv(RAdd(quantity, delta_b), shares[tkn_remove]), RNeg(One)))

\* a linear share redemption: no hub asset is paid out
RemoveLiquidityDeltaQaLinear(tkn_remove, piq, p0, quantity, delta_r) == Zero

RemoveLiquidityDeltaQa(tkn_remove, piq, p0, quantity, delta_r) ==
    IF RGe(piq, p0)
    THEN RMul(RNeg(piq),
              RSub(RMul(RDiv(RMul(RDiv(RMul(<<2, 1>>, piq), RAdd(piq, p0)), quantity),
                             shares[tkn_remove]),
                        liquidity[tkn_remove]),
                   delta_r))
    ELSE Zero

RemoveLiquidityDeltaQ(tkn_remove, delta_r) ==
    RMul(LrnaPrice(liquidity, lrna, tkn_remove), delta_r)

RemoveLiquidityDeltaL(tkn_remove, delta_r) ==
    RDiv(RMul(RDiv(RMul(delta_r, lrna[tkn_remove]), liquidity[tkn_remove]), lrna_imbalance),
         lrna_total)

\* the agent's holdings as calculate_remove_liquidity leaves them (lines 775-777)
RemoveLiquidityKeys(piq, p0) ==
    IF RGe(piq, p0) /\ ~Has(LRNA) THEN Put(holdings, LRNA, Zero) ELSE holdings

RemoveLiquidityRecord(quantity, tkn_remove) ==
    [op |-> "remove_liquidity", result |-> "accepted",
     tkn_sell |-> "", tkn_buy |-> tkn_remove,
     sell_quantity |-> Zero, buy_quantity |-> quantity]

\* execute_remove_liquidity rejects: the pool is as it was, the agent is the
\* one calculate_remove_liquidity has touched
RemoveLiquidityFail(error, rec, h0) ==
    /\ fail' = error
    /\ holdings' = h0
    /\ last' = [rec EXCEPT !.result = "rejected"]
    /\ ops' = ops + 1
    /\ UNCHANGED <<pool_vars, share_prices, config>>

RemoveLiquidityApply(rec, tkn_remove, abs_quantity, h0, delta_qa, delta_r, delta_q, delta_s, delta_b, delta_l) ==
    \E new_holdings \in
          {[k \in DOMAIN h0 |->
              IF k = LRNA THEN RAdd(h0[k], delta_qa)
              ELSE IF k = ShareKey[tkn_remove] THEN RSub(h0[k], abs_quantity)
              ELSE IF k = tkn_remove THEN RSub(h0[k], delta_r)
              ELSE h0[k]]},
       new_shares \in {RAdd(shares[tkn_remove], delta_s)},
       new_protocol_shares \in {RAdd(protocol_shares[tkn_remove], delta_b)},
       new_lrna \in {RAdd(lrna[tkn_remove], delta_q)},
       new_imbalance \in {RAdd(lrna_imbalance, delta_l)} :
        /\ LRNA \in DOMAIN h0
        /\ LedgerIsNum(new_holdings)
        /\ AllNum(<<new_shares, new_protocol_shares, new_lrna, new_imbalance>>)
        /\ liquidity' = [liquidity EXCEPT ![tkn_remove] = RAdd(@, delta_r)]
        /\ shares' = [shares EXCEPT ![tkn_remove] = new_shares]
        /\ protocol_shares' = [protocol_shares EXCEPT ![tkn_remove] = new_protocol_shares]
        /\ lrna' = [lrna EXCEPT ![tkn_remove] = new_lrna]
        /\ lrna_imbalance' = new_imbalance
        /\ holdings' = new_holdings
        /\ fail' = ""
        /\ last' = rec
        /\ ops' = ops + 1
        /\ UNCHANGED <<current_block, share_prices, config>>

RemoveLiquidity(abs_quantity, tkn_remove) ==
    \E rec \in {RemoveLiquidityRecord(abs_quantity, tkn_remove)} :
        /\ ops < MaxOps
        /\ abs_quantity # Zero
        /\ tkn_remove \in DOMAIN share_prices
        /\ Has(ShareKey[tkn_remove])
        /\ Has(tkn_remove)
        /\ \E quantity \in {RNeg(abs_quantity)},
              piq \in {RDiv(lrna[tkn_remove], liquidity[tkn_remove])},
              p0 \in {share_prices[tkn_remove]} :
           \E mult \in {RemoveLiquidityMult(piq, p0)} :
           \E delta_b \in {RemoveLiquidityDeltaB(mult, quantity)} :
           \E delta_r \in {RemoveLiquidityDeltaR(tkn_remove, quantity, delta_b)} :
           \E delta_qa \in {RemoveLiquidityDeltaQa(tkn_remove, piq, p0, quantity, delta_r)},
              delta_q \in {RemoveLiquidityDeltaQ(tkn_remove, delta_r)},
              delta_s \in {RemoveLiquidityDeltaS(quantity, delta_b)},
              delta_l \in {RemoveLiquidityDeltaL(tkn_remove, delta_r)},
              h0 \in {RemoveLiquidityKeys(piq, p0)} :
                /\ AllNum(<<piq, mult, delta_b, delta_s, delta_r, delta_qa, delta_q, delta_l,
                            RAdd(delta_r, liquidity[tkn_remove])>>)
                /\ IF RLt(RAdd(delta_r, liquidity[tkn_remove]), Zero)
                   THEN RemoveLiquidityFail(
                            "Cannot remove more liquidity than exists in the pool.", rec, h0)
                   ELSE IF RGt(abs_quantity, holdings[ShareKey[tkn_remove]])
                   THEN RemoveLiquidityFail(
                            "Cannot remove more liquidity than the agent has invested.",
                            rec, h0)
                   ELSE RemoveLiquidityApply(rec, tkn_remove, abs_quantity, h0, delta_qa,
                                             delta_r, delta_q, delta_s, delta_b, delta_l)

(***************************************************************************)
(* OmnipoolState.update: a new block (no oracles, no update_function).     *)
(***************************************************************************)
Update ==
    /\ ops < MaxOps
    /\ current_block' = Block
    /\ last' = [NoOp EXCEPT !.op = "update"]
    /\ ops' = ops + 1
    /\ UNCHANGED <<liquidity, lrna, shares, protocol_shares, lrna_imbalance, fail,
                   config, holdings, share_prices>>

(***************************************************************************)
(* StableSwap: swap, add_liquidity and remove_liquidity work on copies of  *)
(* the pool and the agent and return them.                                 *)
(***************************************************************************)
SSHas(k) == k \in DOMAIN ss_holdings

SSRecord(op, tkn_sell, tkn_buy, sell_quantity, buy_quantity) ==
    [op |-> op, result |-> "accepted", tkn_sell |-> tkn_sell, tkn_buy |-> tkn_buy,
     sell_quantity |-> sell_quantity, buy_quantity |-> buy_quantity]

\* fail_transaction of the StableSwap pool
SSFailTransaction(error, rec) ==
    /\ ss_fail' = error
    /\ last' = [rec EXCEPT !.result = "rejected"]
    /\ ops' = ops + 1
    /\ UNCHANGED <<ss_liquidity, ss_shares, ss_d, ss_config, ss_holdings, ss_agent_shares>>

\* modified_balances that forgets the delta
UnmodifiedBalances(tkn, value, omit) == SortedBalances(ss_liquidity, omit)

\* modified_balances(delta={tkn: value}, omit), sorted as calculate_y sorts them
ModifiedBalances(tkn, value, omit) ==
    SortedBalances([ss_liquidity EXCEPT ![tkn] = @ + value], omit)

\* StableSwapPoolState.execute_swap, lines 153-164
SSSwapApply(rec, tkn_sell, tkn_buy, buy_quantity, sell_quantity) ==
    IF ss_holdings[tkn_sell] < sell_quantity
    THEN SSFailTransaction("Agent has insufficient funds.", rec)
    ELSE IF ss_liquidity[tkn_buy] <= buy_quantity
    THEN SSFailTransaction("Pool has insufficient liquidity.", rec)
    ELSE /\ ss_holdings' = [ss_holdings EXCEPT ![tkn_buy] = @ + buy_quantity,
                                               ![tkn_sell] = @ - sell_quantity]
         /\ ss_liquidity' = [ss_liquidity EXCEPT ![tkn_buy] = @ - buy_quantity,
                                                 ![tkn_sell] = @ + sell_quantity]
         /\ ss_fail' = ""
         /\ last' = rec
         /\ ops' = ops + 1
         /\ UNCHANGED <<ss_shares, ss_d, ss_config, ss_agent_shares>>

\* swap(old_state, old_agent, tkn_sell, tkn_buy, buy_quantity, sell_quantity)
SSExecuteSwap(tkn_sell, tkn_buy, buy_quantity, sell_quantity) ==
    \E rec \in {SSRecord("stableswap.swap", tkn_sell, tkn_buy, sell_quantity, buy_quantity)},
       d \in {CalculateD(SortedBalances(ss_liquidity, {}), ss_config.amplification)} :
        /\ ops < MaxOps
        /\ d >= 0
        /\ SSHas(tkn_sell)
        /\ SSHas(tkn_buy)
        /\ IF buy_quantity # 0
           THEN \E y \in {CalculateY(ModifiedBalances(tkn_buy, 0 - buy_quantity, {tkn_sell}),
                                     d, ss_config.amplification)} :
                    /\ y # Raises
                    /\ SSSwapApply(rec, tkn_sell, tkn_buy, buy_quantity,
                                   FMul(y - ss_liquidity[tkn_sell],
                                        SSScale + ss_config.trade_fee))
           ELSE IF sell_quantity # 0
           THEN \E y \in {CalculateY(ModifiedBalances(tkn_sell, sell_quantity, {tkn_buy}),
                                     d, ss_config.amplification)} :
                    /\ y # Raises
                    /\ SSSwapApply(rec, tkn_sell, tkn_buy,
                                   FMul(ss_liquidity[tkn_buy] - y,
                                        SSScale - ss_config.trade_fee),
                                   sell_quantity)
           ELSE SSSwapApply(rec, tkn_sell, tkn_buy, buy_quantity, sell_quantity)

\* add_liquidity, lines 213-225: the shares minted for the rise of d
SSAddShares(initial_d, updated_d) ==
    IF ss_shares = 0 THEN updated_d
    ELSE FDiv(FMul(ss_shares, updated_d - initial_d), initial_d)

\* add_liquidity(old_state, old_agent, quantity, tkn_add)
SSAddLiquidity(quantity, tkn_add) ==
    \E rec \in {SSRecord("stableswap.add_liquidity", tkn_add, "", quantity, 0)},
       initial_d \in {CalculateD(SortedBalances(ss_liquidity, {}), ss_config.amplification)},
       updated_d \in {CalculateD(ModifiedBalances(tkn_add, quantity, {}),
                                 ss_config.amplification)} :
        /\ ops < MaxOps
        /\ SSHas(tkn_add)
        /\ initial_d >= 0
        /\ updated_d >= 0
        /\ IF updated_d < initial_d
           THEN SSFailTransaction("invariant decreased for some reason", rec)
           ELSE /\ ss_shares = 0 \/ initial_d # 0
                /\ ss_liquidity' = [ss_liquidity EXCEPT ![tkn_add] = @ + quantity]
                /\ ss_holdings' = [ss_holdings EXCEPT ![tkn_add] = @ - quantity]
                /\ ss_shares' = IF ss_shares = 0 THEN updated_d
                                ELSE ss_shares + SSAddShares(initial_d, updated_d)
                /\ ss_agent_shares' =
                      Put(ss_agent_shares, StableSwapId,
                          IF ss_shares = 0 \/ StableSwapId \notin DOMAIN ss_agent_shares
                          THEN SSAddShares(initial_d, updated_d)
                          ELSE ss_agent_shares[StableSwapId]
                               + SSAddShares(initial_d, updated_d))
                /\ ss_fail' = ""
                /\ last' = rec
                /\ ops' = ops + 1
                /\ UNCHANGED <<ss_d, ss_config>>

\* remove_liquidity, lines 242-250, with the new d and the y found for it
SSRemoveApply(rec, quantity, tkn_remove, new_d, delta_tkn) ==
    /\ ss_shares' = ss_shares - quantity
    /\ ss_agent_shares' = [ss_agent_shares EXCEPT ![StableSwapId] = @ - quantity]
    /\ ss_d' = new_d
    /\ ss_liquidity' = [ss_liquidity EXCEPT ![tkn_remove] = @ + delta_tkn]
    /\ ss_holdings' = [ss_holdings EXCEPT ![tkn_remove] = @ - delta_tkn]
    /\ ss_fail' = ""
    /\ last' = rec
    /\ ops' = ops + 1
    /\ UNCHANGED ss_config

\* remove_liquidity(old_state, old_agent, quantity, tkn_remove); it raises
\* ValueError when the agent owns fewer shares
SSRemoveLiquidity(quantity, tkn_remove) ==
    \E rec \in {SSRecord("stableswap.remove_liquidity", "", tkn_remove, 0, quantity)},
       d \in {CalculateD(SortedBalances(ss_liquidity, {}), ss_config.amplification)} :
        /\ ops < MaxOps
        /\ StableSwapId \in DOMAIN ss_agent_shares
        /\ quantity <= ss_agent_shares[StableSwapId]
        /\ ss_shares # 0
        /\ SSHas(tkn_remove)
        /\ d >= 0
        /\ \E new_d \in {FMul(d, SSScale - FDiv(quantity, ss_shares))} :
           \E y \in {CalculateY(SortedBalances(ss_liquidity, {tkn_remove}), new_d,
                                ss_config.amplification)} :
               /\ y # Raises
               /\ SSRemoveApply(rec, quantity, tkn_remove, new_d,
                                FMul(y - ss_liquidity[tkn_remove],
                                     SSScale - ss_config.trade_fee))

(***************************************************************************)
(* The operations a caller may perform, over the inputs of the model.      *)
(***************************************************************************)
ModifyImbalance == {TRUE}

Swap ==
    /\ \E tkn_buy \in Tokens \cup {LRNA}, tkn_sell \in Tokens \cup {LRNA},
          q \in Quantities \cup {Zero}, specified \in {"sell", "buy"},
          modify_imbalance \in ModifyImbalance :
           /\ specified = "buy" => q # Zero
           /\ ExecuteSwap(tkn_buy, tkn_sell,
                          IF specified = "buy" THEN q ELSE Zero,
                          IF specified = "sell" THEN q ELSE Zero,
                          modify_imbalance)
    /\ UNCHANGED outside_omnipool

Add ==
    /\ \E q \in Quantities, tkn \in Tokens : AddLiquidity(q, tkn)
    /\ UNCHANGED outside_omnipool

Remove ==
    /\ \E q \in Quantities, tkn \in Tokens : RemoveLiquidity(q, tkn)
    /\ UNCHANGED outside_omnipool

NewBlock ==
    /\ Update
    /\ UNCHANGED outside_omnipool

Next == Swap \/ Add \/ Remove \/ NewBlock

Spec == Init /\ [][Next]_vars

SSSwap ==
    /\ \E tkn_sell \in SSTokens, tkn_buy \in SSTokens, q \in SSQuantities \cup {0},
          specified \in {"sell", "buy"} :
           /\ tkn_sell # tkn_buy
           /\ specified = "buy" => q # 0
           /\ SSExecuteSwap(tkn_sell, tkn_buy,
                            IF specified = "buy" THEN q ELSE 0,
                            IF specified = "sell" THEN q ELSE 0)
    /\ UNCHANGED outside_stableswap

SSAdd ==
    /\ \E q \in SSQuantities, tkn \in SSTokens : SSAddLiquidity(q, tkn)
    /\ UNCHANGED outside_stableswap

SSRemove ==
    /\ \E q \in SSShareQuantities, tkn \in SSTokens : SSRemoveLiquidity(q, tkn)
    /\ UNCHANGED outside_stableswap

NextSS == SSSwap \/ SSAdd \/ SSRemove

SpecSS == InitSS /\ [][NextSS]_vars

\* a StableSwap pool that is only traded with: no liquidity is added or removed
NextSSSwaps == SSSwap

SpecSSSwaps == InitSS /\ [][NextSSSwaps]_vars

\* StableSwapPoolState.calculate_d(max_iterations=...) on the pool's reserves
SSCalculateD ==
    /\ \E max_iterations \in IterationLimits :
         /\ d_max_iterations' = max_iterations
         /\ d_returned' = CalculateDWithin(SortedBalances(ss_liquidity, {}),
                                           ss_config.amplification, max_iterations)
    /\ UNCHANGED outside_calculate_d

\* a StableSwap pool in use whose calculate_d is called between the operations
NextSSCalculateD == SSSwap \/ SSAdd \/ SSRemove \/ SSCalculateD

SpecSSCalculateD == InitSS /\ [][NextSSCalculateD]_vars

\* FeeMechanism.compute: the schedule is evaluated, its memory is updated
FeeCompute ==
    /\ fee_evals < MaxFeeEvals
    /\ \E new_mult \in {FeeNewMult(fee_mechanism, raise_oracle, last_mult)} :
       \E fee \in {FeeFunction(fee_mechanism, raise_oracle, fee_liquidity, last_fee,
                               new_mult)} :
            /\ IsNum(new_mult)
            /\ IsNum(fee)
            /\ last_mult' = new_mult
            /\ last_fee' = fee
            /\ fee_evals' = fee_evals + 1
    /\ UNCHANGED <<fee_mechanism, raise_oracle, fee_liquidity>>
    /\ UNCHANGED outside_fees

\* Oracle.update: the oracle's averages of tkn move
FeeOracleUpdate ==
    /\ raise_oracle' \in OracleValues
    /\ UNCHANGED <<fee_mechanism, fee_liquidity, last_fee, last_mult, fee_evals>>
    /\ UNCHANGED outside_fees

\* a swap or a liquidity operation has moved the pool's liquidity of tkn
FeePoolTrade ==
    /\ fee_liquidity' \in PoolLiquidities
    /\ UNCHANGED <<fee_mechanism, raise_oracle, last_fee, last_mult, fee_evals>>
    /\ UNCHANGED outside_fees

\* the pool bound to one dynamic schedule, beside an idle Omnipool and StableSwap pool
InitFee ==
    /\ OmnipoolInit
    /\ StableSwapInit
    /\ FeeInit
    /\ StrategyIdle
    /\ MoneyMarketIdle
    /\ FindIdle
    /\ LaterIdle
    /\ config.trade_limit_per_block = Inf
    /\ \A t \in Tokens : config.asset_fee[t] = Zero /\ config.lrna_fee[t] = Zero
    /\ ~Has(LRNA)
    /\ ss_config.trade_fee = 0
    /\ ops = 0
    /\ last = NoOp

NextFee == FeeCompute \/ FeeOracleUpdate \/ FeePoolTrade

SpecFee == InitFee /\ [][NextFee]_vars

\* TradeStrategy.execute that never marks the strategy done
DoneNeverMarked(is_done, once) == is_done

\* done after TradeStrategy.execute: elif self.run_once: self.done = True
DoneAfterExecute(is_done, once) == IF is_done THEN is_done ELSE IF once THEN TRUE ELSE is_done

\* TradeStrategy.execute(state, agent_id); the caller goes on with the state returned
StrategyExecute ==
    /\ executes < MaxExecutes
    /\ execute_input' = world_state
    /\ executes' = executes + 1
    /\ done' = DoneAfterExecute(done, run_once)
    /\ IF done
       THEN /\ execute_result' = world_state
            /\ UNCHANGED invocations
       ELSE /\ execute_result' = InvestAll(world_state)
            /\ invocations' = invocations + 1
    /\ world_state' = execute_result'
    /\ UNCHANGED run_once
    /\ UNCHANGED outside_strategy

\* between two time steps the agent is paid: it has funds to invest again
AgentIsPaid ==
    /\ world_state.holdings < MaxHoldings
    /\ world_state' = [world_state EXCEPT !.holdings = @ + 1]
    /\ UNCHANGED <<run_once, done, executes, invocations, execute_input, execute_result>>
    /\ UNCHANGED outside_strategy

\* one strategy object, beside an idle Omnipool, StableSwap pool and fee schedule
InitStrategy ==
    /\ OmnipoolInit
    /\ StableSwapInit
    /\ FeeIdle
    /\ StrategyInit
    /\ MoneyMarketIdle
    /\ FindIdle
    /\ LaterIdle
    /\ config.trade_limit_per_block = Inf
    /\ \A t \in Tokens : config.asset_fee[t] = Zero /\ config.lrna_fee[t] = Zero
    /\ ~Has(LRNA)
    /\ ss_config.trade_fee = 0
    /\ ops = 0
    /\ last = NoOp

NextStrategy == StrategyExecute \/ AgentIsPaid

SpecStrategy == InitStrategy /\ [][NextStrategy]_vars

MMRecord(op, result, liquidate_amt) ==
    [op |-> op, result |-> result, cdp |-> cdp, holdings |-> liquidator,
     liquidate_amt |-> liquidate_amt]

MMHolding(k) == IF k \in DOMAIN liquidator THEN liquidator[k] ELSE Zero

\* the liquidator is credited with the collateral and debited the debt asset
MMLiquidatorAfter(liquidate_amt, collateral_sold) ==
    [k \in DOMAIN liquidator \cup {CollateralAsset} |->
        IF k = CollateralAsset THEN RAdd(MMHolding(k), collateral_sold)
        ELSE IF k = DebtAsset THEN RSub(MMHolding(k), liquidate_amt)
        ELSE MMHolding(k)]

\* money_market.liquidate(cdp, agent, liquidate_amt)
MMLiquidate ==
    /\ \E liquidate_amt \in LiquidateAmounts :
       \E collateral_sold \in {CollateralSold(liquidate_amt, GetOraclePrice,
                                              mm_config.liquidation_penalty)} :
         IF ~IsLiquidatable(cdp, GetOraclePrice, mm_config.liquidation_threshold)
         THEN /\ mm_last' = MMRecord("liquidate", "no-op", liquidate_amt)
              /\ UNCHANGED <<cdp, borrowed, liquidator>>
         ELSE IF \/ RGt(liquidate_amt, cdp.debt_amt)
                 \/ RGt(collateral_sold, cdp.collateral_amt)
                 \/ RGt(liquidate_amt, MMHolding(DebtAsset))
         THEN /\ mm_last' = MMRecord("liquidate", "raised", liquidate_amt)
              /\ UNCHANGED <<cdp, borrowed, liquidator>>
         ELSE /\ cdp' = [debt_amt |-> RSub(cdp.debt_amt, liquidate_amt),
                         collateral_amt |-> RSub(cdp.collateral_amt, collateral_sold)]
              /\ borrowed' = RSub(borrowed, liquidate_amt)
              /\ liquidator' = MMLiquidatorAfter(liquidate_amt, collateral_sold)
              /\ mm_last' = MMRecord("liquidate", "liquidated", liquidate_amt)
    /\ UNCHANGED <<mm_config, oracles>>
    /\ UNCHANGED outside_money_market

\* the oracle price of the collateral moves
MMOracleMoves ==
    /\ oracles' \in MMPrices \ {oracles}
    /\ mm_last' = MMRecord("oracle", "none", Zero)
    /\ UNCHANGED <<mm_config, cdp, borrowed, liquidator>>
    /\ UNCHANGED outside_money_market

\* one money market, beside an idle Omnipool, StableSwap pool, fee schedule and strategy
InitMoneyMarket ==
    /\ OmnipoolInit
    /\ StableSwapInit
    /\ FeeIdle
    /\ StrategyIdle
    /\ MoneyMarketInit
    /\ FindIdle
    /\ LaterIdle
    /\ config.trade_limit_per_block = Inf
    /\ \A t \in Tokens : config.asset_fee[t] = Zero /\ config.lrna_fee[t] = Zero
    /\ ~Has(LRNA)
    /\ ss_config.trade_fee = 0
    /\ ops = 0
    /\ last = NoOp

NextMoneyMarket == MMLiquidate \/ MMOracleMoves

SpecMoneyMarket == InitMoneyMarket /\ [][NextMoneyMarket]_vars

\* one pass of the loop of find_agent_delta_y, lines 155-161; a previous
\* price equal to the target divides by zero
FindIterate ==
    /\ fd_pc = "loop"
    /\ FindNotConverged(fd_p, fd_target_price)
    /\ IF fd_previous_price = fd_target_price
       THEN /\ fd_pc' = "raised"
            /\ UNCHANGED <<fd_b, fd_previous_change, fd_p, fd_previous_price>>
       ELSE \E new_b \in {FindNewB(fd_b, fd_previous_change,
                                   FindProgress(fd_previous_price, fd_p, fd_target_price))} :
              /\ fd_b' = new_b
              /\ fd_previous_price' = fd_p
              /\ fd_previous_change' = new_b - fd_b
              /\ fd_p' = PriceAfterTrade(fd_price_after_trade,
                                         IF new_b >= 0 THEN new_b ELSE 0,
                                         IF new_b < 0 THEN -new_b ELSE 0)
              /\ UNCHANGED fd_pc
    /\ UNCHANGED <<fd_price_after_trade, fd_target_price>>
    /\ UNCHANGED outside_find

\* the loop condition fails: return b
FindReturn ==
    /\ fd_pc = "loop"
    /\ ~FindNotConverged(fd_p, fd_target_price)
    /\ fd_pc' = "returned"
    /\ UNCHANGED <<fd_price_after_trade, fd_target_price, fd_b, fd_previous_change, fd_p,
                   fd_previous_price>>
    /\ UNCHANGED outside_find

\* one call of find_agent_delta_y, beside idle pools, schedule, strategy and money market
InitFind ==
    /\ OmnipoolInit
    /\ StableSwapInit
    /\ FeeIdle
    /\ StrategyIdle
    /\ MoneyMarketIdle
    /\ FindInit
    /\ LaterIdle
    /\ config.trade_limit_per_block = Inf
    /\ \A t \in Tokens : config.asset_fee[t] = Zero /\ config.lrna_fee[t] = Zero
    /\ ~Has(LRNA)
    /\ ss_config.trade_fee = 0
    /\ ops = 0
    /\ last = NoOp

NextFind == FindIterate \/ FindReturn

\* every earlier part of the model at rest
EarlierIdle ==
    /\ OmnipoolInit
    /\ StableSwapInit
    /\ FeeIdle
    /\ StrategyIdle
    /\ MoneyMarketIdle
    /\ FindIdle
    /\ config.trade_limit_per_block = Inf
    /\ \A t \in Tokens : config.asset_fee[t] = Zero /\ config.lrna_fee[t] = Zero
    /\ ~Has(LRNA)
    /\ ss_config.trade_fee = 0
    /\ ops = 0
    /\ last = NoOp

OnlyConstruct == EarlierIdle /\ SubPoolIdle /\ MigrationIdle /\ FluctuateIdle /\ ArbOppsIdle /\ ArbSwapsIdle /\ BidWalkIdle
OnlySubPool == EarlierIdle /\ ConstructIdle /\ MigrationIdle /\ FluctuateIdle /\ ArbOppsIdle /\ ArbSwapsIdle /\ BidWalkIdle
OnlyMigration == EarlierIdle /\ ConstructIdle /\ SubPoolIdle /\ FluctuateIdle /\ ArbOppsIdle /\ ArbSwapsIdle /\ BidWalkIdle
OnlyFluctuate == EarlierIdle /\ ConstructIdle /\ SubPoolIdle /\ MigrationIdle /\ ArbOppsIdle /\ ArbSwapsIdle /\ BidWalkIdle
OnlyArbOpps == EarlierIdle /\ ConstructIdle /\ SubPoolIdle /\ MigrationIdle /\ FluctuateIdle /\ ArbSwapsIdle /\ BidWalkIdle
OnlyArbSwaps == EarlierIdle /\ ConstructIdle /\ SubPoolIdle /\ MigrationIdle /\ FluctuateIdle /\ ArbOppsIdle /\ BidWalkIdle
OnlyBidWalk == EarlierIdle /\ ConstructIdle /\ SubPoolIdle /\ MigrationIdle /\ FluctuateIdle /\ ArbOppsIdle /\ ArbSwapsIdle

\* OmnipoolState.__init__, lines 93-96: both fee attributes are built, then
\* the schedule of every asset is evaluated once
Construct ==
    /\ ctor_pc = "new"
    /\ \E asset_fee \in {GetFee(ctor_args.asset_fee)}, lrna_fee \in {GetFee(ctor_args.lrna_fee)} :
         IF ConstructRaises(asset_fee, lrna_fee) # ""
         THEN /\ ctor_pc' = ConstructRaises(asset_fee, lrna_fee)
              /\ UNCHANGED ctor_fees
         ELSE /\ ctor_pc' = "built"
              /\ ctor_fees' = [asset_fee |-> asset_fee.fees, lrna_fee |-> lrna_fee.fees]
    /\ UNCHANGED ctor_args
    /\ UNCHANGED outside_construct

\* pool.asset_fee = value on a pool that stands: __setattr__ routes it through _get_fee
AssignAssetFee ==
    /\ ctor_pc = "built"
    /\ \E value \in FeeArguments :
       \E asset_fee \in {GetFee(value)} :
         /\ asset_fee.raised = ""
         /\ ctor_args' = [ctor_args EXCEPT !.asset_fee = value]
         /\ ctor_fees' = [ctor_fees EXCEPT !.asset_fee = asset_fee.fees]
    /\ UNCHANGED ctor_pc
    /\ UNCHANGED outside_construct

InitConstruct == OnlyConstruct /\ ConstructInit

(***************************************************************************)
(* execute_stable_swap, buying a sub-pool asset with an Omnipool asset     *)
(* (lines 542-557): the shares that pay for buy_quantity are bought in the *)
(* Omnipool, then withdrawn from the sub-pool as tkn_buy.  Both legs act   *)
(* on the pool and the agent they are given.                               *)
(***************************************************************************)
\* lines 544-549: calculate_withdrawal_shares, then execute_swap
StableSwapBuyShares ==
    /\ sp_pc = "idle"
    /\ \E tkn_sell \in Tokens \ {SubPoolId}, tkn_buy \in SubPoolTokens, buy_quantity \in Quantities :
         /\ sp_call' = [tkn_sell |-> tkn_sell, tkn_buy |-> tkn_buy, buy_quantity |-> buy_quantity]
         /\ ExecuteSwap(SubPoolId, tkn_sell, CalculateWithdrawalShares(tkn_buy, buy_quantity), Zero, TRUE)
    /\ sp_entry' = Everything
    /\ sp_pc' = "swapped"
    /\ UNCHANGED <<sp_liquidity, sp_shares, sp_fail>>
    /\ UNCHANGED <<stableswap_vars, fee_vars, strategy_vars, money_market_vars, find_vars,
                   calculate_d_vars, beside_sub_pool>>

\* lines 550-557: the test of state.fail, execute_withdraw_asset, the test of sub_pool.fail
StableSwapWithdraw ==
    /\ sp_pc = "swapped"
    /\ sp_pc' = "idle"
    /\ \E quantity \in {sp_call.buy_quantity}, tkn_remove \in {sp_call.tkn_buy} :
       \E shares_removed \in {CalculateWithdrawalShares(tkn_remove, quantity)},
          error \in {WithdrawAssetFail(quantity, tkn_remove, HoldingOf(holdings, SubPoolId))} :
         IF fail # ""
         THEN UNCHANGED <<fail, holdings, sp_liquidity, sp_shares, sp_fail, last>>
         ELSE IF error # ""
         THEN /\ sp_fail' = error
              /\ fail' = error
              /\ last' = [last EXCEPT !.result = "rejected"]
              /\ UNCHANGED <<holdings, sp_liquidity, sp_shares>>
         ELSE /\ sp_liquidity' = [sp_liquidity EXCEPT ![tkn_remove] = RSub(@, quantity)]
              /\ sp_shares' = RSub(sp_shares, shares_removed)
              /\ holdings' = Put(Put(holdings, SubPoolId, RSub(HoldingOf(holdings, SubPoolId), shares_removed)),
                                 tkn_remove, RAdd(HoldingOf(holdings, tkn_remove), quantity))
              /\ UNCHANGED <<fail, sp_fail, last>>
    /\ UNCHANGED <<sp_call, sp_entry, pool_vars, share_prices, config, ops>>
    /\ UNCHANGED <<stableswap_vars, fee_vars, strategy_vars, money_market_vars, find_vars,
                   calculate_d_vars, beside_sub_pool>>

\* execute_swap between the Omnipool's own assets, between two routed calls
DirectSwap == sp_pc = "idle" /\ Swap

InitSubPool == OnlySubPool /\ SubPoolIdle

\* execute_create_sub_pool(state, tkns_migrate, sub_pool_id, amplification)
CreateSubPool ==
    /\ mg_calls < MaxCalls
    /\ mg_calls' = mg_calls + 1
    /\ \E tkns_migrate \in SUBSET MigrationNames \ {{}}, sub_pool_id \in SubPoolIds :
         IF CreateSubPoolRaises(tkns_migrate) # ""
         THEN /\ mg_raised' = CreateSubPoolRaises(tkns_migrate)
              /\ UNCHANGED <<mg_asset_list, mg_liquidity, mg_lrna, mg_shares, mg_protocol_shares,
                             mg_sub_pools, mg_migrated>>
         ELSE \E total \in {MigratedLrna(tkns_migrate)} :
              /\ mg_sub_pools' = Put(mg_sub_pools, sub_pool_id,
                                     [liquidity |-> [t \in tkns_migrate |-> mg_liquidity[t]],
                                      asset_list |-> SetToSeq([t \in tkns_migrate |-> t], tkns_migrate),
                                      shares |-> total])
              /\ mg_asset_list' = RemoveEach(Append(mg_asset_list, sub_pool_id), tkns_migrate)
              /\ mg_liquidity' = [t \in DOMAIN mg_liquidity \cup {sub_pool_id} |->
                                    IF t \in tkns_migrate THEN Zero
                                    ELSE IF t = sub_pool_id THEN total ELSE mg_liquidity[t]]
              /\ mg_lrna' = [t \in DOMAIN mg_lrna \cup {sub_pool_id} |->
                               IF t \in tkns_migrate THEN Zero
                               ELSE IF t = sub_pool_id THEN total ELSE mg_lrna[t]]
              /\ mg_shares' = Put(mg_shares, sub_pool_id, total)
              /\ mg_protocol_shares' = Put(mg_protocol_shares, sub_pool_id, MigratedProtocolShares(tkns_migrate))
              /\ mg_migrated' = mg_migrated \cup tkns_migrate
              /\ mg_raised' = ""
    /\ UNCHANGED outside_migration

\* execute_migrate_asset(state, tkn_migrate, sub_pool_id)
MigrateAsset ==
    /\ mg_calls < MaxCalls
    /\ mg_calls' = mg_calls + 1
    /\ \E i \in MigrationNames, s \in SubPoolIds :
         IF MigrateAssetRaises(i, s) # ""
         THEN /\ mg_raised' = MigrateAssetRaises(i, s)
              /\ UNCHANGED <<mg_asset_list, mg_liquidity, mg_lrna, mg_shares, mg_protocol_shares,
                             mg_sub_pools, mg_migrated>>
         ELSE \E sub_pool \in {[mg_sub_pools[s] EXCEPT !.liquidity = Put(@, i, mg_liquidity[i])]} :
              IF mg_lrna[s] = Zero \/ mg_shares[i] = Zero
              THEN \* the division of line 696 raises: the sub-pool has the asset's reserve
                   /\ mg_raised' = "ZeroDivisionError"
                   /\ mg_sub_pools' = [mg_sub_pools EXCEPT ![s] = sub_pool]
                   /\ UNCHANGED <<mg_asset_list, mg_liquidity, mg_lrna, mg_shares, mg_protocol_shares,
                                  mg_migrated>>
              ELSE \E protocol_shares_s \in
                        {RAdd(mg_protocol_shares[s],
                              RDiv(RMul(MigratedShare(mg_shares[s], i, s), mg_protocol_shares[i]),
                                   mg_shares[i]))} :
                   IF mg_liquidity[i] = Zero
                   THEN \* the division of line 700 raises, after lines 694-697
                        /\ mg_raised' = "ZeroDivisionError"
                        /\ mg_sub_pools' = [mg_sub_pools EXCEPT ![s] = sub_pool]
                        /\ mg_protocol_shares' = [mg_protocol_shares EXCEPT ![s] = protocol_shares_s]
                        /\ UNCHANGED <<mg_asset_list, mg_liquidity, mg_lrna, mg_shares, mg_migrated>>
                   ELSE \E shares_s \in {RAdd(mg_shares[s], MigratedShare(mg_shares[s], i, s))},
                           liquidity_s \in {RAdd(mg_liquidity[s], MigratedShare(sub_pool.shares, i, s))},
                           lrna_s \in {RAdd(mg_lrna[s], mg_lrna[i])} :
                        /\ mg_protocol_shares' = [mg_protocol_shares EXCEPT ![s] = protocol_shares_s]
                        /\ mg_shares' = [mg_shares EXCEPT ![s] = shares_s]
                        /\ mg_liquidity' = [[mg_liquidity EXCEPT ![s] = liquidity_s] EXCEPT ![i] = Zero]
                        /\ mg_lrna' = [[mg_lrna EXCEPT ![s] = lrna_s] EXCEPT ![i] = Zero]
                        /\ mg_sub_pools' =
                             [mg_sub_pools EXCEPT ![s] =
                                 [sub_pool EXCEPT !.shares = RAdd(@, MigratedShare(sub_pool.shares, i, s)),
                                                  !.asset_list = Append(@, i)]]
                        /\ mg_asset_list' = RemoveFirst(mg_asset_list, i)
                        /\ mg_migrated' = mg_migrated \cup {i}
                        /\ mg_raised' = ""
    /\ UNCHANGED outside_migration

InitMigration == OnlyMigration /\ MigrationInit

\* fluctuate_prices(state, percent, bias): a copy of the state with every price multiplied
FluctuatePrices ==
    /\ fl_calls < MaxFluctuations
    /\ fl_calls' = fl_calls + 1
    /\ \E percent \in Percents, bias \in Biases, draw \in [MarketAssets -> Draws] :
         /\ fl_call' = [percent |-> percent, bias |-> bias, draw |-> draw]
         /\ external_market' =
               [asset \in MarketAssets |->
                   RMul(external_market[asset], FluctuateFactor(percent, bias, draw[asset]))]
    /\ fl_old_market' = external_market
    /\ UNCHANGED outside_fluctuate

InitFluctuate == OnlyFluctuate /\ FluctuateInit

\* get_arb_opps(exchanges, config)
GetArbOpps ==
    /\ ao_pc = "new"
    /\ IF \E i \in ConfigIndices : OppRaises(ao_spots[i])
       THEN ao_pc' = "ZeroDivisionError" /\ UNCHANGED ao_opps
       ELSE ao_pc' = "returned" /\ ao_opps' = SortByRatio(UnsortedOpps)
    /\ UNCHANGED ao_spots
    /\ UNCHANGED outside_arb_opps

InitArbOpps == OnlyArbOpps /\ ArbOppsInit

\* get_arb_swaps, line 162: the objects test_exchanges names
SharedExchanges(exchanges) == exchanges
CopiedExchanges(exchanges) == <<3, 4>>

\* get_arb_swaps, lines 152-162: the opportunities, and a copy of every exchange
GetArbSwapsBegin ==
    /\ arb_pc = "new"
    /\ arb_pc' = "loop"
    /\ arb_opps' = ArbOppsOf(arb_heap, arb_exchanges)
    /\ arb_test_exchanges' = CopiedExchanges(arb_exchanges)
    /\ arb_heap' = [k \in 1..4 |-> IF k <= 2 THEN arb_heap[k] ELSE VenueCopy(arb_heap[arb_exchanges[k - 2]])]
    /\ UNCHANGED <<arb_exchanges, arb_max_liquidity, arb_all_swaps, arb_calc, arb_args, arb_before>>
    /\ UNCHANGED outside_arb_swaps

\* does_max_liquidity_allow_trade(tkn_pairs, max_liquidity)
DoesMaxLiquidityAllowTrade(max_liquidity) ==
    \A k \in {1, 2} : max_liquidity[k].tkn > 0 /\ max_liquidity[k].numeraire > 0

\* process_next_swap, lines 34-39: the exchange to buy on, or 0
BuyExchange(heap, refs) ==
    IF buy_spot(heap[refs[1]]) # 0 /\ sell_spot(heap[refs[2]]) # 0
            /\ buy_spot(heap[refs[1]]) < sell_spot(heap[refs[2]]) THEN 1
    ELSE IF buy_spot(heap[refs[2]]) # 0 /\ sell_spot(heap[refs[1]]) # 0
            /\ buy_spot(heap[refs[2]]) < sell_spot(heap[refs[1]]) THEN 2
    ELSE 0

\* the arguments process_next_swap calls calculate_arb_amount with
ArbCall(buy_ex) ==
    [called |-> TRUE,
     buy_ex |-> arb_heap[arb_test_exchanges[buy_ex]],
     sell_ex |-> arb_heap[arb_test_exchanges[3 - buy_ex]],
     max_liquidity_buy |-> arb_max_liquidity[buy_ex],
     max_liquidity_sell |-> arb_max_liquidity[3 - buy_ex],
     buffer |-> arb_args.buffer, max_iters |-> arb_args.max_iters]

\* lines 182-185: no swap came back, the loop is left
LoopsAfterNoSwap == "loop"
AfterNoSwap == "returned"

\* lines 187-189: the best profit ratio is what it was
StillImproving(opps, new_opps) == FALSE
StoppedImproving(opps, new_opps) == opps # << >> /\ new_opps # << >> /\ opps[1][1] = new_opps[1][1]

\* process_next_swap, lines 52-102, for a nonzero amt: both swaps on the exchanges
\* it was given, the budgets moved, and lines 184-189 of get_arb_swaps
ProcessSwap(buy_ex, sell_ex, amt) ==
    \E bought \in {VenueBuy(arb_heap[arb_test_exchanges[buy_ex]], amt, arb_max_liquidity[buy_ex].numeraire)},
       sold \in {VenueSell(arb_heap[arb_test_exchanges[sell_ex]], amt, arb_max_liquidity[sell_ex].tkn)} :
    \E heap \in {[k \in 1..4 |-> IF k = arb_test_exchanges[buy_ex] THEN bought.venue
                                  ELSE IF k = arb_test_exchanges[sell_ex] THEN sold.venue
                                  ELSE arb_heap[k]]} :
        /\ arb_heap' = heap
        /\ arb_max_liquidity' =
              [k \in {1, 2} |->
                  IF k = buy_ex
                  THEN [tkn |-> arb_max_liquidity[k].tkn + amt,
                        numeraire |-> arb_max_liquidity[k].numeraire - bought.moved]
                  ELSE [tkn |-> arb_max_liquidity[k].tkn - amt,
                        numeraire |-> arb_max_liquidity[k].numeraire + sold.moved]]
        /\ arb_all_swaps' = Append(arb_all_swaps, amt)
        /\ \E new_arb_opps \in {ArbOppsOf(heap, arb_test_exchanges)} :
              IF StoppedImproving(arb_opps, new_arb_opps)
              THEN arb_pc' = "returned" /\ UNCHANGED arb_opps
              ELSE arb_pc' = "loop" /\ arb_opps' = new_arb_opps

\* get_arb_swaps, lines 163-190: one turn of the main loop, process_next_swap included
GetArbSwapsStep ==
    /\ arb_pc = "loop"
    /\ IF arb_opps = << >> \/ ~DoesMaxLiquidityAllowTrade(arb_max_liquidity)
       THEN /\ arb_pc' = "returned"
            /\ arb_opps' = IF arb_opps = << >> THEN arb_opps ELSE << >>
            /\ UNCHANGED <<arb_heap, arb_max_liquidity, arb_all_swaps, arb_calc>>
       ELSE \E buy_ex \in {BuyExchange(arb_heap, arb_test_exchanges)} :
            IF buy_ex = 0
            THEN /\ arb_pc' = AfterNoSwap
                 /\ UNCHANGED <<arb_heap, arb_max_liquidity, arb_all_swaps, arb_calc, arb_opps>>
            ELSE \E result \in {CalculateArbAmount(ArbCall(buy_ex))} :
                 /\ arb_calc' = [ArbCall(buy_ex) @@ [amt |-> result.amt, tried |-> result.tried]
                                 EXCEPT !.called = TRUE]
                 /\ IF result.amt = 0
                    THEN /\ arb_pc' = AfterNoSwap
                         /\ UNCHANGED <<arb_heap, arb_max_liquidity, arb_all_swaps, arb_opps>>
                    ELSE ProcessSwap(buy_ex, 3 - buy_ex, result.amt)
    /\ UNCHANGED <<arb_exchanges, arb_test_exchanges, arb_args, arb_before>>
    /\ UNCHANGED outside_arb_swaps

InitArbSwaps == OnlyArbSwaps /\ ArbSwapsInit

\* get_arb_swaps(op_state, order_book, cex_fee=cex_fee, iters=iters), lines 5-64 and 108-110
GetArbSwapsBids ==
    /\ bw_pc = "new"
    /\ bw_pc' = "returned"
    /\ \E bids \in {SortBids(bw_bids)} :
          IF ~RLt(BuySpotOf(bw_pool), NetBidPrice(bids[1], bw_args.cex_fee))
          THEN bw_swaps' = << >> /\ UNCHANGED bw_pool
          ELSE \E w \in {BidWalk(bids, bw_args.cex_fee, [i |-> 0, op_state |-> bw_pool, buy_spot |-> BuySpotOf(bw_pool)])} :
               IF RLt(w.buy_spot, NetBidPrice(PyIndex(bids, w.i - 1), bw_args.cex_fee))
               THEN bw_swaps' = FullLegs(bids, w.i) /\ UNCHANGED bw_pool
               ELSE \E bid \in {PyIndex(bids, w.i - 1)} :
                    \E b \in {BidSearch(w.op_state, bid, bw_args.cex_fee, bw_args.iters,
                                        [amt_low |-> Zero, amt_high |-> bid.amount, i |-> 0])} :
                       /\ bw_swaps' = Append(FullLegs(bids, w.i - 1), BuyLeg(bid.price, b.amt_low))
                       /\ bw_pool' = IF w.i = 0
                                     THEN PoolBuy(bw_pool, BidTkn, BidNumeraire, b.amt_low)
                                     ELSE bw_pool
    /\ UNCHANGED <<bw_bids, bw_args>>
    /\ UNCHANGED outside_bid_walk

InitBidWalk == OnlyBidWalk /\ BidWalkInit

NextBidWalk == GetArbSwapsBids

SpecBidWalk == InitBidWalk /\ [][NextBidWalk]_vars

NextArbSwaps == GetArbSwapsBegin \/ GetArbSwapsStep

SpecArbSwaps == InitArbSwaps /\ [][NextArbSwaps]_vars

\* the calls on a deep first exchange whose numeraire budgets are not empty
InitArbSwapsRuns ==
    /\ InitArbSwaps
    /\ arb_heap[1].depth = 8
    /\ arb_max_liquidity[1] = [tkn |-> 8, numeraire |-> 100]
    /\ arb_max_liquidity[2].numeraire = 100

\* the call runs on: a turn of the loop that can be taken is taken
SpecArbSwapsRuns == InitArbSwapsRuns /\ [][NextArbSwaps]_vars /\ WF_vars(NextArbSwaps)

NextArbOpps == GetArbOpps

SpecArbOpps == InitArbOpps /\ [][NextArbOpps]_vars

NextFluctuate == FluctuatePrices

SpecFluctuate == InitFluctuate /\ [][NextFluctuate]_vars

NextMigration == CreateSubPool \/ MigrateAsset

SpecMigration == InitMigration /\ [][NextMigration]_vars

NextSubPool == StableSwapBuyShares \/ StableSwapWithdraw \/ DirectSwap

SpecSubPool == InitSubPool /\ [][NextSubPool]_vars

NextConstruct == Construct \/ AssignAssetFee

SpecConstruct == InitConstruct /\ [][NextConstruct]_vars

\* the call is running: whenever it can take a step it takes it
SpecFind == InitFind /\ [][NextFind]_vars /\ WF_vars(NextFind)

(***************************************************************************)
(* The properties.  A step of an operation is one that advances ops; the   *)
(* operation, its inputs and its outcome are in last afterwards.           *)
(***************************************************************************)
Product(liq, q, t) == RMul(liq[t], q[t])


Rejected == ops' = ops + 1 /\ last'.result = "rejected"

AcceptedSwapStep ==
    ops' = ops + 1 /\ last'.op = "execute_swap" /\ last'.result = "accepted"

AcceptedAssetSwapStep ==
    AcceptedSwapStep /\ last'.tkn_sell \in Tokens /\ last'.tkn_buy \in Tokens

ZeroFees == \A t \in Tokens : config.asset_fee[t] = Zero /\ config.lrna_fee[t] = Zero

\* C1: a rejected execute_swap, add_liquidity or remove_liquidity leaves
\* liquidity, lrna, shares, protocol_shares, lrna_imbalance and the agent's
\* holdings, keys included, as they were, and fail is a non-empty reason.
C1_RejectedLeavesStateUntouched ==
    [][Rejected =>
          /\ liquidity' = liquidity
          /\ lrna' = lrna
          /\ shares' = shares
          /\ protocol_shares' = protocol_shares
          /\ lrna_imbalance' = lrna_imbalance
          /\ holdings' = holdings
          /\ fail' # ""]_vars

\* C2: from non-negative holdings, every holding of an agent is still >= 0
\* after any sequence of accepted Omnipool and StableSwap operations.
C2_HoldingsNonNegative ==
    /\ \A k \in DOMAIN holdings : RGe(holdings[k], Zero)
    /\ \A k \in DOMAIN ss_holdings : ss_holdings[k] >= 0

\* C3: an accepted swap with asset fee 0 and hub fee 0 leaves
\* liquidity[t] * lrna[t] the same for the sold and the bought asset.
C3_ZeroFeeSwapKeepsProduct ==
    [][(AcceptedSwapStep /\ ZeroFees) =>
          \A t \in {last'.tkn_sell, last'.tkn_buy} \cap Tokens :
              RCmp(Product(liquidity', lrna', t), Product(liquidity, lrna, t)) = 0]_vars

\* C4: an accepted swap through execute_swap, asset-to-asset or hub-asset,
\* sell- or buy-specified, with fees in [0, 1), leaves liquidity[t] * lrna[t]
\* of every asset at least what it was.
C4_SwapNeverLowersProduct ==
    [][AcceptedSwapStep =>
          \A t \in Tokens :
              RGe(Product(liquidity', lrna', t), Product(liquidity, lrna, t))]_vars

\* the hub asset a step has created: the changes of lrna[t] and of lrna_imbalance
LrnaCreated(q, l, new_q, new_l) ==
    RAdd(RSum([t \in Tokens |-> RSub(new_q[t], q[t])], Tokens), RSub(new_l, l))

\* C5: an accepted asset-to-asset swap neither creates nor destroys hub
\* asset: the changes of lrna[t] summed over the assets, the fee credited to
\* lrna['HDX'] among them, plus the change of lrna_imbalance, are zero
\* (wherever that sum stays within MaxMagnitude).
C5_SwapConservesLrna ==
    [][AcceptedAssetSwapStep =>
          (IsNum(LrnaCreated(lrna, lrna_imbalance, lrna', lrna_imbalance'))
              => LrnaCreated(lrna, lrna_imbalance, lrna', lrna_imbalance') = Zero)]_vars

\* an asset-to-asset swap that charged a hub fee while the imbalance was not zero
C5_Witness ==
    /\ last.op = "execute_swap"
    /\ last.result = "accepted"
    /\ last.tkn_sell \in Tokens
    /\ last.tkn_buy \in Tokens
    /\ LrnaFee(last.tkn_buy) # Zero
    /\ lrna_imbalance # Zero

\* C6: an accepted swap leaves liquidity[t] + holdings[t] of every risk asset
\* t as it was, sell-specified or buy-specified: what the pool gains of t is
\* what the agent loses of it (wherever both stay within MaxMagnitude).
C6_SwapConservesAssets ==
    [][AcceptedSwapStep =>
          \A t \in Tokens :
              LET gained == RSub(liquidity'[t], liquidity[t])
                  lost == RSub(HoldingOf(holdings, t), HoldingOf(holdings', t))
              IN (IsNum(gained) /\ IsNum(lost)) => gained = lost]_vars

\* a buy-specified asset-to-asset swap, with fees, has been accepted
C6_Witness ==
    /\ last.op = "execute_swap"
    /\ last.result = "accepted"
    /\ last.tkn_sell \in Tokens
    /\ last.tkn_buy \in Tokens
    /\ last.buy_quantity # Zero
    /\ AssetFee(last.tkn_sell) # Zero

\* C7: in every state reached by add_liquidity, remove_liquidity and swaps of
\* an agent whose shares come from add_liquidity, shares[tkn] is at least
\* protocol_shares[tkn] for every asset.
C7_SharesCoverProtocolShares ==
    \A tkn \in Tokens : RGe(shares[tkn], protocol_shares[tkn])

\* a remove_liquidity below the acquisition price has handed shares to the protocol
C7_Witness ==
    /\ last.op = "remove_liquidity"
    /\ last.result = "accepted"
    /\ RGt(protocol_shares[last.tkn_buy], InitTokens[last.tkn_buy].liquidity)

\* the weight lrna[tkn] / lrna_total the pool would have after a deposit
PostDepositWeight(tkn, quantity) ==
    RDiv(RAdd(lrna[tkn], RMul(RDiv(lrna[tkn], liquidity[tkn]), quantity)),
         RAdd(lrna_total, RMul(RDiv(lrna[tkn], liquidity[tkn]), quantity)))

\* the total value locked the pool would have after a deposit
PostDepositTvl(tkn, quantity) ==
    RDiv(RMul(IF tkn = Stablecoin THEN RAdd(liquidity[tkn], quantity)
              ELSE liquidity[Stablecoin],
              RAdd(lrna_total, RMul(RDiv(lrna[tkn], liquidity[tkn]), quantity))),
         IF tkn = Stablecoin
         THEN RAdd(lrna[tkn], RMul(RDiv(lrna[tkn], liquidity[tkn]), quantity))
         ELSE lrna[Stablecoin])

AddLiquidityStep(tkn, quantity) ==
    /\ ops' = ops + 1
    /\ last'.op = "add_liquidity"
    /\ last'.tkn_sell = tkn
    /\ last'.sell_quantity = quantity

C9_NetVolumeWithinLimit ==
    ~IsInf(config.trade_limit_per_block) =>
        \A t \in Tokens :
            /\ RLe(RSub(current_block.volume_in[t], current_block.volume_out[t]),
                   RMul(config.trade_limit_per_block, current_block.liquidity[t]))
            /\ RLe(RSub(current_block.volume_out[t], current_block.volume_in[t]),
                   RMul(config.trade_limit_per_block, current_block.liquidity[t]))

\* C10: from a pool whose liquidity is at most 10^12 per asset, after any
\* accepted swaps, asset-to-asset and hub-asset, and add_liquidity operations
\* every asset's liquidity is still at most 10^12.
C10_LiquidityBelowCeiling ==
    \A t \in Tokens : RLe(liquidity[t], <<LiquidityCeiling, 1>>)

AcceptedAddStep ==
    ops' = ops + 1 /\ last'.op = "add_liquidity" /\ last'.result = "accepted"

\* C11: an accepted add_liquidity leaves the hub price lrna[t] / liquidity[t]
\* of every asset t as it was, and leaves liquidity[tkn] / shares[tkn] of the
\* deposited asset as it was (wherever the quotients stay within MaxMagnitude).
C11_AddLiquidityKeepsPriceAndShareRatio ==
    [][AcceptedAddStep =>
          /\ \A t \in Tokens :
                LET before == RDiv(lrna[t], liquidity[t])
                    after == RDiv(lrna'[t], liquidity'[t])
                IN (IsNum(before) /\ IsNum(after)) => after = before
          /\ LET tkn == last'.tkn_sell
                 before == RDiv(liquidity[tkn], shares[tkn])
                 after == RDiv(liquidity'[tkn], shares'[tkn])
             IN (IsNum(before) /\ IsNum(after)) => after = before]_vars

\* a deposit into an asset whose price is not 1 and whose shares no longer
\* equal its liquidity has been accepted
C11_Witness ==
    /\ last.op = "add_liquidity"
    /\ last.result = "accepted"
    /\ lrna[last.tkn_sell] # liquidity[last.tkn_sell]
    /\ shares[last.tkn_sell] # liquidity[last.tkn_sell]
    /\ IsNum(RDiv(lrna[last.tkn_sell], liquidity[last.tkn_sell]))
    /\ IsNum(RDiv(liquidity[last.tkn_sell], shares[last.tkn_sell]))

AcceptedRemoveStep ==
    ops' = ops + 1 /\ last'.op = "remove_liquidity" /\ last'.result = "accepted"

\* what an agent has received of k between two holdings
Received(h, new_h, k) == RSub(HoldingOf(new_h, k), HoldingOf(h, k))

\* 2*piq/(piq+p0) * (s/shares[i]) * piq * liquidity[i]
ImpermanentLossPayout(tkn, s) ==
    RMul(RMul(RMul(RDiv(RMul(<<2, 1>>, LrnaPrice(liquidity, lrna, tkn)),
                        RAdd(LrnaPrice(liquidity, lrna, tkn), share_prices[tkn])),
                   RDiv(s, shares[tkn])),
              LrnaPrice(liquidity, lrna, tkn)),
         liquidity[tkn])

\* piq * (risk asset received) + (hub asset received)
RemovePayoutValue(tkn) ==
    RAdd(RMul(LrnaPrice(liquidity, lrna, tkn), Received(holdings, holdings', tkn)),
         Received(holdings, holdings', LRNA))

\* C12: an accepted remove_liquidity burning s shares of asset i pays out
\* piq * (risk asset received) + (hub asset received) =
\* 2*piq/(piq+p0) * (s/shares[i]) * piq * liquidity[i], above and below the
\* acquisition price p0, and neither received amount is negative (the
\* equality wherever both sides stay within MaxMagnitude).
C12_RemoveLiquidityPayout ==
    [][AcceptedRemoveStep =>
          LET tkn == last'.tkn_buy
              s == last'.buy_quantity
          IN /\ (IsNum(RemovePayoutValue(tkn)) /\ IsNum(ImpermanentLossPayout(tkn, s)))
                    => RemovePayoutValue(tkn) = ImpermanentLossPayout(tkn, s)
             /\ RGe(Received(holdings, holdings', tkn), Zero)
             /\ RGe(Received(holdings, holdings', LRNA), Zero)]_vars

\* a withdrawal above the acquisition price has been accepted (the withdrawal
\* leaves the price as it was), and the agent holds hub asset
C12_Witness ==
    /\ last.op = "remove_liquidity"
    /\ last.result = "accepted"
    /\ last.tkn_buy \in DOMAIN share_prices
    /\ RGt(LrnaPrice(liquidity, lrna, last.tkn_buy), share_prices[last.tkn_buy])
    /\ RGt(HoldingOf(holdings, LRNA), Zero)

\* the ledgers execute_swap leaves when asked to buy b of tkn_buy with
\* tkn_sell: calculate_sell_from_buy, then the basic branch with both
\* quantities given
BuySpecifiedOutcome(tkn_buy, tkn_sell, b) ==
    LET delta_Ri == CalculateSellFromBuy(tkn_buy, tkn_sell, b)
        lrna_fee == SwapLrnaFee(tkn_buy, tkn_sell)
        delta_Qi == SwapDeltaQi(tkn_sell, delta_Ri)
        delta_Qj == SwapDeltaQj(delta_Qi, lrna_fee)
        delta_L == SwapDeltaL(delta_Qi, lrna_fee)
        delta_QH == SwapDeltaQH(delta_Qi, lrna_fee, delta_L)
    IN [sell_quantity |-> delta_Ri,
        lrna |-> SwapLrna(tkn_sell, tkn_buy, delta_Qi, delta_Qj, delta_QH),
        liquidity |-> SwapLiquidity(tkn_sell, tkn_buy, delta_Ri, RNeg(b)),
        holdings |-> SwapHoldings(tkn_sell, tkn_buy, delta_Ri, RNeg(b))]

OutcomeIsNum(o) ==
    /\ IsNum(o.sell_quantity)
    /\ LedgerIsNum(o.lrna)
    /\ LedgerIsNum(o.liquidity)
    /\ LedgerIsNum(o.holdings)

AcceptedSellSpecifiedStep ==
    AcceptedAssetSwapStep /\ last'.buy_quantity = Zero /\ last'.sell_quantity # Zero

\* C13: when selling d of asset i for asset j yields b of j, buying b of j
\* with i from the same state ends in the same liquidity and lrna of every
\* asset and the same agent holdings, for any configured asset and hub fees
\* (wherever the buy's figures stay within MaxMagnitude).
C13_BuyMatchesSell ==
    [][AcceptedSellSpecifiedStep =>
          LET o == BuySpecifiedOutcome(last'.tkn_buy, last'.tkn_sell,
                                       Received(holdings, holdings', last'.tkn_buy))
          IN OutcomeIsNum(o) =>
                /\ o.liquidity = liquidity'
                /\ o.lrna = lrna'
                /\ o.holdings = holdings']_vars

\* the fee schedule is the same for every asset
UniformFees ==
    \A t, u \in Tokens :
        config.asset_fee[t] = config.asset_fee[u] /\ config.lrna_fee[t] = config.lrna_fee[u]

\* the same equivalence for pools whose fees do not depend on the asset
BuyMatchesSellUnderUniformFees ==
    [][(AcceptedSellSpecifiedStep /\ UniformFees) =>
          LET o == BuySpecifiedOutcome(last'.tkn_buy, last'.tkn_sell,
                                       Received(holdings, holdings', last'.tkn_buy))
          IN OutcomeIsNum(o) =>
                /\ o.liquidity = liquidity'
                /\ o.lrna = lrna'
                /\ o.holdings = holdings']_vars

\* C14: every value a dynamic fee schedule returns is within its bounds:
\* [minimum, fee_max] for dynamicadd_* and dynamicmult_* configured with
\* minimum <= fee_max, [0, 0.5] for dynamic_asset_fee and dynamic_lrna_fee,
\* whatever the oracle and the pool have held between the evaluations.
C14_DynamicFeeWithinBounds ==
    /\ IsNum(last_fee)
    /\ IF fee_mechanism.kind = "dynamic"
       THEN RGe(last_fee, Zero) /\ RLe(last_fee, <<1, 2>>)
       ELSE RGe(last_fee, fee_mechanism.minimum) /\ RLe(last_fee, fee_mechanism.fee_max)

\* an accumulating schedule has been raised from below fee_max up to fee_max
C14_Witness ==
    /\ fee_mechanism.kind = "dynamicadd"
    /\ fee_evals >= 2
    /\ RLt(fee_mechanism.minimum, fee_mechanism.fee_max)
    /\ last_fee = fee_mechanism.fee_max
    /\ RGt(RaiseFlow(fee_mechanism.side, raise_oracle), LowerFlow(fee_mechanism.side, raise_oracle))

\* calculate_d() of the pool as it stands, and of the pool as constructed
CurrentD == CalculateD(SortedBalances(ss_liquidity, {}), ss_config.amplification)
InitialD == CalculateD(SortedBalances(SSInitTokens, {}), ss_config.amplification)

C16_RunOnceInvokesOnce ==
    /\ run_once =>
          /\ invocations = (IF executes >= 1 THEN 1 ELSE 0)
          /\ executes >= 2 => execute_result = execute_input
    /\ ~run_once => invocations = executes

\* a run_once strategy is executed again while its agent has funds to invest
C16_Witness ==
    /\ run_once
    /\ executes >= 2
    /\ execute_input.holdings > 0
    /\ InvestAll(execute_input) # execute_input

\* C17: a liquidate call on a CDP whose collateral value at the oracle price
\* is not below debt / liquidation_threshold leaves the CDP's debt_amt and
\* collateral_amt and every holding of the liquidating agent unchanged, adds
\* no collateral key to the agent, and the money market still validates.
C17_LiquidateNotLiquidatableIsNoOp ==
    (/\ mm_last.op = "liquidate"
     /\ ~RLt(RMul(mm_last.cdp.collateral_amt, oracles),
             RDiv(mm_last.cdp.debt_amt, mm_config.liquidation_threshold))) =>
        /\ cdp = mm_last.cdp
        /\ liquidator = mm_last.holdings
        /\ DOMAIN liquidator = DOMAIN mm_last.holdings
        /\ MMValidate

\* a liquidator with the funds for it has called liquidate, for an amount
\* within the debt, on a CDP that is not liquidatable
C17_Witness ==
    /\ mm_last.op = "liquidate"
    /\ ~RLt(RMul(mm_last.cdp.collateral_amt, oracles),
            RDiv(mm_last.cdp.debt_amt, mm_config.liquidation_threshold))
    /\ RLe(mm_last.liquidate_amt, mm_last.cdp.debt_amt)
    /\ RGe(mm_last.holdings[DebtAsset], mm_last.liquidate_amt)
    /\ CollateralAsset \notin DOMAIN mm_last.holdings

\* C18: every iterative solver performs at most an explicitly bounded number
\* of iterations on every input, so it terminates even when its iteration
\* never reaches the convergence condition: a call of find_agent_delta_y
\* eventually leaves its loop.
C18_SolversTerminate == <>(fd_pc # "loop")

\* C19: when the Newton iteration of calculate_d does not converge within
\* max_iterations, calculate_d still returns its latest numeric estimate of
\* D, never an absent value.
C19_CalculateDReturnsEstimate == d_returned # None

\* C20: after each operation applied to the Omnipool, fail is non-empty if
\* and only if that operation was rejected; an accepted execute_swap that
\* follows a rejected operation leaves fail empty.
C20_FailTellsLastRejection ==
    last.op \in {"execute_swap", "add_liquidity", "remove_liquidity"} =>
        (fail # "" <=> last.result = "rejected")

\* C23: with mult = (piq - p0) / (piq + p0), an accepted remove_liquidity at
\* a hub price piq above the acquisition price p0 raises protocol_shares[tkn]
\* by mult times the shares the agent burns; at piq <= p0 it leaves
\* protocol_shares[tkn] as it was.
C23_ProtocolSharesOnPriceRise ==
    [][AcceptedRemoveStep =>
          LET tkn == last'.tkn_buy
              s == last'.buy_quantity
              piq == LrnaPrice(liquidity, lrna, tkn)
              p0 == share_prices[tkn]
              mult == RemoveLiquidityMult(piq, p0)
          IN (IsNum(mult) /\ IsNum(RAdd(protocol_shares[tkn], RMul(mult, s)))) =>
                IF RGt(piq, p0)
                THEN protocol_shares'[tkn] = RAdd(protocol_shares[tkn], RMul(mult, s))
                ELSE protocol_shares'[tkn] = protocol_shares[tkn]]_vars

\* C22: a pool constructed with asset_fee or lrna_fee given as a per-asset
\* mapping stands, every asset the mapping lists has the mapped constant or
\* schedule, and every pool asset the mapping omits has a schedule that
\* evaluates to 0, so that every pool asset has a fee schedule.
MappedOrZero(argument, fees) ==
    argument.type = "dict" =>
        \A tkn \in Tokens :
            /\ tkn \in DOMAIN fees
            /\ IF tkn \in DOMAIN argument.items
               THEN fees[tkn] = (IF argument.items[tkn].type = "number"
                                 THEN basic_fee(argument.items[tkn].value)
                                 ELSE argument.items[tkn])
               ELSE fees[tkn] = basic_fee(Zero)

C22_MappingCoversEveryAsset ==
    ctor_pc # "new" =>
        /\ (ctor_args.asset_fee.type = "dict" \/ ctor_args.lrna_fee.type = "dict") => ctor_pc = "built"
        /\ ctor_pc = "built" => /\ MappedOrZero(ctor_args.asset_fee, ctor_fees.asset_fee)
                                /\ MappedOrZero(ctor_args.lrna_fee, ctor_fees.lrna_fee)
\* C21: when execute_stable_swap reports the swap failed after one of its
\* legs was rejected, the Omnipool, the sub-pool and the agent are as the
\* call found them: nothing an earlier leg did remains.
C21_FailedStableSwapLeavesNoTrace ==
    [][(sp_pc = "swapped" /\ sp_pc' = "idle" /\ fail' # "") => Everything' = sp_entry]_vars
\* the number of places an asset is tradable in: the Omnipool's asset_list
\* and the asset_list of every sub-pool
Places(tkn) ==
    (IF InList(mg_asset_list, tkn) THEN 1 ELSE 0)
        + Cardinality({id \in DOMAIN mg_sub_pools : InList(mg_sub_pools[id].asset_list, tkn)})

\* C24: after any sequence of execute_create_sub_pool and
\* execute_migrate_asset calls the Omnipool's lrna_total is what it was
\* before the sequence, every migrated asset has Omnipool liquidity 0 and
\* lrna 0 and is not in asset_list, and every asset is tradable in exactly
\* one place, the Omnipool or one sub-pool.
C24_MigrationKeepsLrnaAndPlaces ==
    /\ \E tokens \in MigrationInitTokens :
          MigrationLrnaTotal = RSum([t \in MigrationAssets |-> tokens[t].LRNA], MigrationAssets)
    /\ \A tkn \in mg_migrated :
          mg_liquidity[tkn] = Zero /\ mg_lrna[tkn] = Zero /\ ~InList(mg_asset_list, tkn)
    /\ \A tkn \in MigrationAssets : Places(tkn) = 1
\* C25: fluctuate_prices(state, percent, bias) returns a state in which every
\* external-market price is the old price times a factor f with
\* 1/(1+percent/100) + bias <= f <= 1/(1+percent/100) + percent/100 + bias,
\* whatever value in [0, 1) the pseudo-random draw takes.
C25_FluctuationWithinBand ==
    fl_calls > 0 =>
        \A asset \in MarketAssets :
            LET low == RAdd(FluctuateFloor(fl_call.percent), fl_call.bias)
                high == RAdd(low, RDiv(fl_call.percent, <<100, 1>>))
                old == fl_old_market[asset]
                new == external_market[asset]
            IN (IsNum(new) /\ IsNum(RMul(old, low)) /\ IsNum(RMul(old, high))) =>
                  /\ RLe(RMul(old, low), new)
                  /\ RLe(new, RMul(old, high))
\* C26: every (profit ratio, config index) tuple get_arb_opps returns has a
\* strictly positive profit ratio, and the list is in non-increasing order
\* of profit ratio.
C26_ArbOppsProfitableAndSorted ==
    ao_pc = "returned" =>
        /\ \A k \in 1..Len(ao_opps) : RGt(ao_opps[k][1], Zero)
        /\ \A k \in 1..(Len(ao_opps) - 1) : RGe(ao_opps[k][1], ao_opps[k + 1][1])
\* the outcome of trading amt on copies of the two exchanges of a call of
\* calculate_arb_amount: neither copy fails, and the buy price is not above
\* the sell price less the buffer
TradeIsSound(c, amt) ==
    LET bought == VenueBuy(VenueCopy(c.buy_ex), amt, Unlimited).venue
        sold == VenueSell(VenueCopy(c.sell_ex), amt, Unlimited).venue
    IN /\ bought.fail = "" /\ sold.fail = ""
       /\ 100 * buy_spot(bought) <= (100 - c.buffer) * sell_spot(sold)

\* C27: calculate_arb_amount returns 0, or an amount that is at most each
\* liquidity budget and each exchange's limit and that the search tried and
\* found sound; it returns 0 when the min_amt probe is unprofitable or fails.
C27_ArbAmountIsTriedAndSound ==
    arb_calc.called =>
        /\ arb_calc.amt # 0 =>
              /\ arb_calc.amt <= arb_calc.max_liquidity_buy.numeraire
              /\ arb_calc.amt <= arb_calc.max_liquidity_sell.tkn
              /\ arb_calc.amt <= buy_limit(arb_calc.buy_ex)
              /\ arb_calc.amt <= sell_limit(arb_calc.sell_ex)
              /\ arb_calc.amt \in arb_calc.tried
              /\ TradeIsSound(arb_calc, arb_calc.amt)
        /\ ~TradeIsSound(arb_calc, MinAmt) => arb_calc.amt = 0

\* a call that halved its way down to an amount below the cap it started from
C27_Witness ==
    /\ arb_calc.called
    /\ arb_calc.amt > MinAmt
    /\ arb_calc.amt < ArbAmtHigh(arb_calc)
    /\ Cardinality(arb_calc.tried) >= 2

\* C29: the general get_arb_swaps leaves the caller's exchanges alone: after
\* the call, whatever the number of opportunities it processed, each has the
\* reserves and the fail it had before.
C29_CallerExchangesUntouched ==
    arb_pc # "new" =>
        <<arb_heap[arb_exchanges[1]], arb_heap[arb_exchanges[2]]>> = arb_before

\* a call that has returned swaps, its copies having moved away from the originals
C29_Witness ==
    /\ arb_pc = "returned"
    /\ Len(arb_all_swaps) >= 1
    /\ arb_heap[arb_test_exchanges[1]].pos # arb_heap[arb_exchanges[1]].pos
    /\ arb_heap[1].fail # ""

RECURSIVE PoolAfterBids(_, _)
PoolAfterBids(bids, n) ==
    IF n = 0 THEN BidPool
    ELSE PoolBuy(PoolAfterBids(bids, n - 1), BidTkn, BidNumeraire, bids[n].amount)

\* buying the whole of bid k, after the bids before it, leaves the pool's buy
\* price below the bid's price net of the CEX fee
WholeBidFits(bids, k, cex_fee) ==
    RLt(BuySpotOf(PoolAfterBids(bids, k)), NetBidPrice(bids[k], cex_fee))

\* C28: in the bid walk of the single-pair get_arb_swaps a bid becomes a full
\* 'buy' leg exactly when it and every bid before it can be bought whole with
\* the pool's buy price staying below its net price; the walk stops at the
\* first bid that cannot, and only that bid is filled in part, with an amount
\* between 0 and the bid's amount.
C28_BidWalkFillsWhileBelowBid ==
    LET bids == SortBids(bw_bids)
        fee == bw_args.cex_fee
        fits(k) == \A j \in 1..k : WholeBidFits(bids, j, fee)
        stops == {k \in 1..Len(bids) : ~WholeBidFits(bids, k, fee)}
    IN (bw_pc = "returned" /\ RLt(BuySpotOf(BidPool), NetBidPrice(bids[1], fee))) =>
          /\ \A k \in 1..Len(bids) :
                (k <= Len(bw_swaps) /\ bw_swaps[k] = BuyLeg(bids[k].price, bids[k].amount)) <=> fits(k)
          /\ stops = {} => Len(bw_swaps) = Len(bids)
          /\ stops # {} =>
                LET stop == CHOOSE k \in stops : \A j \in stops : k <= j
                IN /\ Len(bw_swaps) = stop
                   /\ bw_swaps[stop].price = bids[stop].price
                   /\ RGe(bw_swaps[stop].amount, Zero)
                   /\ RLe(bw_swaps[stop].amount, bids[stop].amount)
=============================================================================
